---- MODULE Spec2Model ----
(***************************************************************************)
(* Interactive floor-plan renderer (PlanoSVG), its selection store (the    *)
(* wizard reducer) and the unit-selection step of the reservation wizard;  *)
(* the batch submission of SummaryStep and of FormularioReserva under      *)
(* ReservasPage; the pure functions getShapeIdVariants, findSvgElement     *)
(* and computeDimensions, each under a specification of its own.           *)
(*                                                                         *)
(* Strings that the code inspects character by character (shape            *)
(* identifiers, SVG element ids) are sequences of one-character strings.   *)
(* React is modelled at the granularity of the event loop: one action is   *)
(* one event handler, promise callback or animation frame together with    *)
(* the render and the effects (with their cleanups) that it triggers.      *)
(***************************************************************************)
EXTENDS Integers, Sequences, FiniteSets, TLC

\* ------------------------------------------------------------------------
\* Bounds of the model
\* ------------------------------------------------------------------------

\* largest number of SVG fetches one PlanoSVG instance starts
MaxLoads == 2

\* ------------------------------------------------------------------------
\* Values
\* ------------------------------------------------------------------------

\* null of the TypeScript source; an optional value is a sequence of length
\* at most one, so that null compares with every value
Null == <<>>

Some(v) == <<v>>

COLOR_AVAILABLE == "#D19E02"
COLOR_SELECTED == "#89D102"
COLOR_OCCUPIED == "#D14402"
COLOR_FILTERED == "#A17902"

\* ------------------------------------------------------------------------
\* Sequence helpers (Array.prototype.some / filter / map of the source)
\* ------------------------------------------------------------------------

Range(s) == {s[i] : i \in 1..Len(s)}

\* Array.prototype.filter keeping the elements whose id differs from id
RECURSIVE FilterOutId(_, _)
FilterOutId(s, id) ==
  IF s = <<>> THEN <<>>
  ELSE IF Head(s).id = id THEN FilterOutId(Tail(s), id)
       ELSE <<Head(s)>> \o FilterOutId(Tail(s), id)

\* selectedUnits.some(u => u.id === id)
SomeId(s, id) == \E i \in 1..Len(s) : s[i].id = id

\* new Set(selectedUnits.map(u => u.id))
IdSet(s) == {s[i].id : i \in 1..Len(s)}

\* ------------------------------------------------------------------------
\* UnitVisualStateResolver: getFill / isClickable
\* ------------------------------------------------------------------------

\* getFill testing the status before the selection, and the price with >=
getFillStatusFirst(unit, filterDim, selectedIds, maxP) ==
  IF unit.status # "AVAILABLE" THEN COLOR_OCCUPIED
  ELSE IF unit.id \in selectedIds THEN COLOR_SELECTED
  ELSE IF filterDim # Null /\ unit.dimensions # filterDim[1] THEN COLOR_FILTERED
  ELSE IF maxP # Null /\ unit.price >= maxP[1] THEN COLOR_FILTERED
  ELSE COLOR_AVAILABLE

\* getFill
getFill(unit, filterDim, selectedIds, maxP) ==
  IF unit.id \in selectedIds THEN COLOR_SELECTED
  ELSE IF unit.status # "AVAILABLE" THEN COLOR_OCCUPIED
  ELSE IF filterDim # Null /\ unit.dimensions # filterDim[1] THEN COLOR_FILTERED
  ELSE IF maxP # Null /\ unit.price > maxP[1] THEN COLOR_FILTERED
  ELSE COLOR_AVAILABLE

\* isClickable
isClickable(unit, filterDim, maxP) ==
  IF unit.status # "AVAILABLE" THEN FALSE
  ELSE IF filterDim # Null /\ unit.dimensions # filterDim[1] THEN FALSE
  ELSE IF maxP # Null /\ unit.price > maxP[1] THEN FALSE
  ELSE TRUE

\* ------------------------------------------------------------------------
\* ShapeIdMatcher: getShapeIdVariants / findSvgElement
\* ------------------------------------------------------------------------

Digits == <<"0", "1", "2", "3", "4", "5", "6", "7", "8", "9">>

IsDigit(c) == \E i \in 1..10 : Digits[i] = c

DigitVal(c) == (CHOOSE i \in 1..10 : Digits[i] = c) - 1

LowerLetters == <<"a", "b", "c", "d", "e", "f", "g", "h", "i", "j", "k", "l", "m",
                  "n", "o", "p", "q", "r", "s", "t", "u", "v", "w", "x", "y", "z">>

UpperLetters == <<"A", "B", "C", "D", "E", "F", "G", "H", "I", "J", "K", "L", "M",
                  "N", "O", "P", "Q", "R", "S", "T", "U", "V", "W", "X", "Y", "Z">>

IsLower(c) == \E i \in 1..26 : LowerLetters[i] = c

IsLetter(c) == IsLower(c) \/ \E i \in 1..26 : UpperLetters[i] = c

\* \s of the regular expression and the white space String.prototype.trim removes
IsSpace(c) == c = " "

UpperChar(c) == IF IsLower(c) THEN UpperLetters[CHOOSE i \in 1..26 : LowerLetters[i] = c] ELSE c

\* String.prototype.toUpperCase
ToUpperCase(s) == [i \in 1..Len(s) |-> UpperChar(s[i])]

RECURSIVE TrimStart(_)
TrimStart(s) == IF s # <<>> /\ IsSpace(Head(s)) THEN TrimStart(Tail(s)) ELSE s

RECURSIVE TrimEnd(_)
TrimEnd(s) == IF s # <<>> /\ IsSpace(s[Len(s)]) THEN TrimEnd(SubSeq(s, 1, Len(s) - 1)) ELSE s

\* String.prototype.trim
Trim(s) == TrimEnd(TrimStart(s))

\* length of the longest prefix of s whose characters all satisfy the class
RECURSIVE LettersPrefixLen(_)
LettersPrefixLen(s) == IF s # <<>> /\ IsLetter(Head(s)) THEN 1 + LettersPrefixLen(Tail(s)) ELSE 0

RECURSIVE SpacesPrefixLen(_)
SpacesPrefixLen(s) == IF s # <<>> /\ IsSpace(Head(s)) THEN 1 + SpacesPrefixLen(Tail(s)) ELSE 0

\* 0* followed by (\d+): the zeros are given up to the group only as far as
\* the group needs one digit
RECURSIVE StripLeadingZeros(_)
StripLeadingZeros(d) == IF Len(d) > 1 /\ Head(d) = "0" THEN StripLeadingZeros(Tail(d)) ELSE d

AllDigits(s) == \A i \in 1..Len(s) : IsDigit(s[i])

Drop(s, n) == SubSeq(s, n + 1, Len(s))

\* raw.match(/^([a-zA-Z]+)\s*0*(\d+)$/): Null, or the two groups
ShapeIdMatch(raw) ==
  LET p == LettersPrefixLen(raw)
      afterLetters == Drop(raw, p)
      rest == Drop(afterLetters, SpacesPrefixLen(afterLetters))
  IN IF p > 0 /\ rest # <<>> /\ AllDigits(rest)
     THEN Some([prefix |-> SubSeq(raw, 1, p), digits |-> StripLeadingZeros(rest)])
     ELSE Null

\* Number(match[2]) for a string of decimal digits
RECURSIVE DigitsToNumber(_)
DigitsToNumber(d) ==
  IF d = <<>> THEN 0 ELSE 10 * DigitsToNumber(SubSeq(d, 1, Len(d) - 1)) + DigitVal(d[Len(d)])

\* String(n) for a non-negative integer
RECURSIVE NumberToString(_)
NumberToString(n) ==
  IF n < 10 THEN <<Digits[n + 1]>> ELSE NumberToString(n \div 10) \o <<Digits[(n % 10) + 1]>>

\* String.prototype.padStart(width, '0')
RECURSIVE PadStart(_, _)
PadStart(s, width) == IF Len(s) >= width THEN s ELSE PadStart(<<"0">> \o s, width)

\* Set.prototype.add on an insertion-ordered set kept as a sequence
SetAdd(seq, v) == IF v \in Range(seq) THEN seq ELSE Append(seq, v)

\* getShapeIdVariants adding the upper-cased form before the literal one
getShapeIdVariantsUpperFirst(shapeId) ==
  LET raw == Trim(shapeId)
  IN IF raw = <<>> THEN <<>> ELSE SetAdd(<<ToUpperCase(raw)>>, raw)

getShapeIdVariants(shapeId) ==
  LET raw == Trim(shapeId)
      m == ShapeIdMatch(raw)
      base == SetAdd(<<raw>>, ToUpperCase(raw))
  IN IF raw = <<>> THEN <<>>
     ELSE IF m = Null THEN base
     ELSE LET prefix == ToUpperCase(m[1].prefix)
              n == DigitsToNumber(m[1].digits)
          IN SetAdd(SetAdd(SetAdd(base, prefix \o NumberToString(n)),
                           prefix \o PadStart(NumberToString(n), 2)),
                    prefix \o PadStart(NumberToString(n), 3))

\* svgEl.querySelector(`[id="${v}"]`) over the variants in order; the
\* document is given by the set of its element ids
RECURSIVE FirstPresent(_, _)
FirstPresent(variants, ids) ==
  IF variants = <<>> THEN Null
  ELSE IF Head(variants) \in ids THEN Some(Head(variants))
  ELSE FirstPresent(Tail(variants), ids)

\* findSvgElement going through the variants from the last one
RECURSIVE LastPresent(_, _)
LastPresent(variants, ids) ==
  IF variants = <<>> THEN Null
  ELSE IF variants[Len(variants)] \in ids THEN Some(variants[Len(variants)])
  ELSE LastPresent(SubSeq(variants, 1, Len(variants) - 1), ids)

findSvgElementLastVariant(ids, shapeId) == LastPresent(getShapeIdVariants(shapeId), ids)

findSvgElement(ids, shapeId) == FirstPresent(getShapeIdVariants(shapeId), ids)

\* ------------------------------------------------------------------------
\* computeDimensions: the surface of a raw unit of the backend
\* ------------------------------------------------------------------------

\* A number with a finite decimal expansion, m / 10^e, kept with the least
\* e; the values drawn have few digits, where the double arithmetic of the
\* source is exact up to the last place.
RECURSIVE Dec(_, _)
Dec(m, e) == IF e > 0 /\ m % 10 = 0 THEN Dec(m \div 10, e - 1) ELSE [m |-> m, e |-> e]

Zero == Dec(0, 0)

\* a * b
Times(a, b) == Dec(a.m * b.m, a.e + b.e)

\* a > 0
Positive(a) == a.m > 0

\* the character U+00D7 of the separator class
MultiplicationSign == "U+00D7"

\* [xX×*]
IsSeparator(c) == c \in {"x", "X", MultiplicationSign, "*"}

\* [.,]
IsDecimalMark(c) == c \in {".", ","}

RECURSIVE DigitsPrefixLen(_)
DigitsPrefixLen(s) == IF s # <<>> /\ IsDigit(Head(s)) THEN 1 + DigitsPrefixLen(Tail(s)) ELSE 0

\* length of the match of \d+(?:[.,]\d+)? at the start of s, 0 without one
OperandLen(s) ==
  LET d == DigitsPrefixLen(s)
      f == IF Len(s) > d + 1 /\ IsDecimalMark(s[d + 1]) THEN DigitsPrefixLen(Drop(s, d + 1)) ELSE 0
  IN IF d = 0 THEN 0 ELSE IF f > 0 THEN d + 1 + f ELSE d

\* raw.match(/^(\d+(?:[.,]\d+)?)\s*[xX×*]\s*(\d+(?:[.,]\d+)?)$/): Null, or the two groups
DimensionsMatch(raw) ==
  LET a == OperandLen(raw)
      r1 == Drop(raw, a)
      r2 == Drop(r1, SpacesPrefixLen(r1))
      r3 == IF r2 = <<>> THEN <<>> ELSE Drop(Tail(r2), SpacesPrefixLen(Tail(r2)))
  IN IF a > 0 /\ r2 # <<>> /\ IsSeparator(Head(r2)) /\ r3 # <<>> /\ OperandLen(r3) = Len(r3)
     THEN Some([a |-> SubSeq(raw, 1, a), b |-> r3])
     ELSE Null

\* String.prototype.replace(',', '.'): the first occurrence only
RECURSIVE ReplaceComma(_)
ReplaceComma(s) ==
  IF s = <<>> THEN <<>>
  ELSE IF Head(s) = "," THEN <<".">> \o Tail(s)
  ELSE <<Head(s)>> \o ReplaceComma(Tail(s))

\* parseFloat: leading white space is skipped, then the longest prefix that
\* is a decimal literal is read and the rest ignored; Null is NaN.  (Signs,
\* exponents and Infinity are not among the characters drawn.)
parseFloat(s) ==
  LET t == TrimStart(s)
      d == DigitsPrefixLen(t)
      f == IF Len(t) > d /\ t[d + 1] = "." THEN DigitsPrefixLen(Drop(t, d + 1)) ELSE 0
  IN IF d + f = 0 THEN Null
     ELSE Some(Dec(DigitsToNumber(SubSeq(t, 1, d) \o SubSeq(t, d + 2, d + 1 + f)), f))

\* parseDimensionsString reading its operands without replace(',', '.')
parseDimensionsStringKeepComma(raw) ==
  LET m == DimensionsMatch(raw)
      a == IF m = Null THEN Null ELSE parseFloat(m[1].a)
      b == IF m = Null THEN Null ELSE parseFloat(m[1].b)
      num == parseFloat(ReplaceComma(raw))
  IN IF m # Null /\ a # Null /\ b # Null /\ Positive(a[1]) /\ Positive(b[1])
     THEN Times(a[1], b[1])
     ELSE IF num # Null /\ Positive(num[1]) THEN num[1]
     ELSE Zero

parseDimensionsString(raw) ==
  LET m == DimensionsMatch(raw)
      a == IF m = Null THEN Null ELSE parseFloat(ReplaceComma(m[1].a))
      b == IF m = Null THEN Null ELSE parseFloat(ReplaceComma(m[1].b))
      num == parseFloat(ReplaceComma(raw))
  IN IF m # Null /\ a # Null /\ b # Null /\ Positive(a[1]) /\ Positive(b[1])
     THEN Times(a[1], b[1])
     ELSE IF num # Null /\ Positive(num[1]) THEN num[1]
     ELSE Zero

\* the dimensions field of a raw unit: typeof, and the value under it
Undefined == [type |-> "undefined", text |-> <<>>, num |-> Zero]

StringValue(text) == [type |-> "string", text |-> text, num |-> Zero]

NumberValue(n) == [type |-> "number", text |-> <<>>, num |-> n]

\* typeof v === 'number' && v > 0
IsPositiveNumber(v) == v.type = "number" /\ Positive(v.num)

\* computeDimensions trying width and length before width and height
computeDimensionsLengthFirst(raw) ==
  LET parsed == parseDimensionsString(raw.dimensions.text)
  IN IF raw.dimensions.type = "string" /\ Len(raw.dimensions.text) > 0 /\ Positive(parsed)
     THEN parsed
     ELSE IF IsPositiveNumber(raw.dimensions) THEN raw.dimensions.num
     ELSE IF IsPositiveNumber(raw.area) THEN raw.area.num
     ELSE IF IsPositiveNumber(raw.width) /\ IsPositiveNumber(raw.length)
     THEN Times(raw.width.num, raw.length.num)
     ELSE IF IsPositiveNumber(raw.width) /\ IsPositiveNumber(raw.height)
     THEN Times(raw.width.num, raw.height.num)
     ELSE Zero

computeDimensions(raw) ==
  LET parsed == parseDimensionsString(raw.dimensions.text)
  IN IF raw.dimensions.type = "string" /\ Len(raw.dimensions.text) > 0 /\ Positive(parsed)
     THEN parsed
     ELSE IF IsPositiveNumber(raw.dimensions) THEN raw.dimensions.num
     ELSE IF IsPositiveNumber(raw.area) THEN raw.area.num
     ELSE IF IsPositiveNumber(raw.width) /\ IsPositiveNumber(raw.height)
     THEN Times(raw.width.num, raw.height.num)
     ELSE IF IsPositiveNumber(raw.width) /\ IsPositiveNumber(raw.length)
     THEN Times(raw.width.num, raw.length.num)
     ELSE Zero

\* enrichUnit taking the label from the computed surface in every case
enrichUnitComputedLabel(raw) ==
  [id |-> raw.id, number |-> raw.number, shapeId |-> raw.shapeId, status |-> raw.status,
   type |-> raw.type, price |-> raw.price, dimensions |-> computeDimensions(raw),
   dimensionsLabel |-> NumberToString(computeDimensions(raw).m) \o <<" ", "m", "U+00B2">>]

\* getDimensionsLabel: the text as it came, or `${computeDimensions(raw)} m\u00b2`,
\* where a number that is not negative is written as its integer part, then
\* a point and its decimals when it has any
getDimensionsLabel(raw) ==
  LET Pad(k) == [i \in 1..k |-> "0"]
      Fraction(frac, e) == Pad(e - Len(frac)) \o frac
      Template(n) ==
        IF n.e = 0 THEN NumberToString(n.m)
        ELSE NumberToString(n.m \div (10 ^ n.e)) \o <<".">>
               \o Fraction(NumberToString(n.m % (10 ^ n.e)), n.e)
  IN IF raw.dimensions.type = "string" /\ Len(raw.dimensions.text) > 0
     THEN raw.dimensions.text
     ELSE Template(computeDimensions(raw)) \o <<" ", "m", "U+00B2">>

enrichUnit(raw) ==
  [id |-> raw.id, number |-> raw.number, shapeId |-> raw.shapeId, status |-> raw.status,
   type |-> raw.type, price |-> raw.price, dimensions |-> computeDimensions(raw),
   dimensionsLabel |-> getDimensionsLabel(raw)]

\* ------------------------------------------------------------------------
\* Inputs: what the backend and the plan server can answer
\* ------------------------------------------------------------------------

Statuses == {"AVAILABLE", "OCCUPIED", "RESERVED", "MAINTENANCE"}

StartModes == {"immediate", "next_month"}

Unit(id, number, shapeId, status, price, dimensions, label) ==
  [id |-> id, number |-> number, shapeId |-> shapeId, status |-> status, type |-> "trastero",
   price |-> price, dimensions |-> dimensions, dimensionsLabel |-> label]

\* the enriched units getPlan returns on a first answer ...
PlanUnitsA ==
  << Unit("u1", 12, <<"t", "1", "2">>, "AVAILABLE", 80, 2, "2x1"),
     Unit("u2", 7, <<"T", "7">>, "AVAILABLE", 100, 3, "3x1") >>

\* ... and on another one, after the backend's data changed: u1 was
\* withdrawn, u2 was taken from another browser
PlanUnitsB ==
  << Unit("u2", 7, <<"T", "7">>, "RESERVED", 100, 3, "3x1"),
     Unit("u3", 5, <<"X", "5">>, "MAINTENANCE", 50, 2, "2x1") >>

\* successful answers of getPlan
PlanAnswers ==
  { [svgUrl |-> "/planos/a.svg", storageUnits |-> PlanUnitsA],
    [svgUrl |-> "/planos/b.svg", storageUnits |-> PlanUnitsB] }

\* API_BASE without VITE_API_BASE in the build environment
API_BASE == ""

\* values of the svgUrl prop
SvgUrls == {"/planos/a.svg", "/planos/b.svg"}

\* text.includes('<svg')
IncludesSvgTag(text) == text \in {"docA", "docB", "docC", "comment"}

\* host.querySelector('svg') finds an element after innerHTML = text; the
\* text "comment" holds '<svg' inside an XML comment only
HasSvgElement(text) == text \in {"docA", "docB", "docC"}

\* the id attributes of the elements of the document
DocIds(text) ==
  IF text = "docA" THEN { <<"T", "1", "2">>, <<"T", "0", "0", "7">>, <<"l", "o", "g", "o">> }
  ELSE IF text = "docB" THEN { <<"t", "1", "2">>, <<"T", "1", "2">>, <<"T", "0", "7">>, <<"X", "0", "5">> }
  ELSE IF text = "docC" THEN { <<"T", "0", "1">>, <<"T", "1", "2">> }
  ELSE {}

\* the load effect without its test of r.ok
ResponseOkUnchecked(status) == TRUE

\* Response.ok
ResponseOk(status) == status >= 200 /\ status <= 299

\* the document the plan server keeps under a url
DocumentAt(url) ==
  IF url = <<API_BASE, "/planos/a.svg">> THEN "docA"
  ELSE IF url = <<API_BASE, "/planos/c.svg">> THEN "docC"
  ELSE "docB"

\* outcomes of fetch(url): a rejected promise, or a response with its status
\* and its text (the server may also answer 200 with something else than the
\* document; a response that is not ok is never read)
FetchOutcomes(url) ==
  { [kind |-> "network_error", status |-> 0, text |-> ""],
    [kind |-> "response", status |-> 304, text |-> ""],
    [kind |-> "response", status |-> 404, text |-> DocumentAt(url)],
    [kind |-> "response", status |-> 200, text |-> DocumentAt(url)],
    [kind |-> "response", status |-> 200, text |-> "comment"],
    [kind |-> "response", status |-> 200, text |-> "html"] }

\* texts typed into the max-price input
PriceInputs == {"", "80"}

\* pointer positions (clientX, clientY)
Positions == {1, 2}

\* Number(maxPriceInput)
NumberOfInput(text) == IF text = "50" THEN 50 ELSE IF text = "80" THEN 80 ELSE 0

\* maxPrice of StorageSelectionStep
MaxPriceOf(text) == IF text = "" THEN Null ELSE Some(NumberOfInput(text))

\* getSvgFullUrl: throws (Null) for an empty url, else API_BASE followed by
\* the path (the urls of SvgUrls are relative and start with '/')
getSvgFullUrl(url) ==
  IF url = "" THEN Null ELSE Some(<<API_BASE, url>>)

\* ------------------------------------------------------------------------
\* State
\* ------------------------------------------------------------------------

VARIABLES
  step,                \* WizardState.step
  startMode,           \* WizardState.startMode
  selectedUnits,       \* WizardState.selectedUnits: sequence of unit records
  svgUrl,              \* StorageSelectionStep svgUrl, the svgUrl prop of PlanoSVG
  storageUnits,        \* StorageSelectionStep storageUnits
  loading,             \* StorageSelectionStep loading
  error,               \* StorageSelectionStep error
  filterByDimensions,  \* StorageSelectionStep filterByDimensions
  maxPriceInput,       \* StorageSelectionStep maxPriceInput
  planPending,         \* a getPlan call of the mounted step is in flight
  plano,               \* the mounted PlanoSVG instance: state, fetches, host node, frame
  lastClick,           \* the last step handled a click on a shape: the element, the unit
                       \* of its handler and the selection before the click
  host,                \* the component the plan is shown by: "wizard" or "page"
  customer,            \* WizardState.customer
  paymentMethod,       \* WizardState.paymentMethod
  confirmed,           \* WizardState.confirmed
  form,                \* the submitting component: loading, submitError, the running batch
  probe                \* a pure function under examination: its input and its result

vars == <<step, startMode, selectedUnits, svgUrl, storageUnits, loading, error,
          filterByDimensions, maxPriceInput, planPending, plano, lastClick,
          host, customer, paymentMethod, confirmed, form, probe>>

\* the state the plan, its filters and its shapes never write
checkoutVars == <<host, customer, paymentMethod, confirmed, form, probe>>

\* an element of the injected document before any repaint touched it;
\* onclick: the click handlers it carries, each the unit its closure holds,
\* onmouse: how many handlers it carries for each of enter, move and leave
Unpainted == [fill |-> "markup", cursor |-> "auto", unit |-> Null, onclick |-> <<>>, onmouse |-> 0]

\* the elements of the host node after host.innerHTML = text
ElementsOf(text) == [e \in DocIds(text) |-> Unpainted]

NoElements == [e \in {} |-> Unpainted]

\* scale and fitScale are kept in ten-thousandths: this is useState(1)
ScaleOne == 10000

\* useState initial values of PlanoSVG, no fetch, no host node, no frame;
\* frame: the handle the cleanup of effect 3 holds while its frame has not
\* run, frames: the callbacks of effect 3 the browser has queued;
\* fitFrame: the animation frame of the auto-fit is requested
PlanoInit ==
  [svgContent |-> Null, loadError |-> Null, matchWarning |-> Null, tooltip |-> Null,
   fetches |-> {}, loadSeq |-> 0, hostMarkup |-> Null, elems |-> NoElements, frame |-> Null,
   frames |-> {},
   scale |-> ScaleOne, fitScale |-> ScaleOne, fitFrame |-> FALSE]

\* PlanoSVG is rendered by StorageSelectionStep
Mounted == (host = "page" \/ step = 2) /\ ~loading /\ error = Null /\ svgUrl # Null

\* the props a render of PlanoSVG receives, with the state its effects depend on
View(url, units, fd, mpi, sel, content) ==
  [svgUrl |-> url, storageUnits |-> units, filterByDimensions |-> fd,
   maxPrice |-> MaxPriceOf(mpi), selectedUnits |-> sel, svgContent |-> content]

CurrentView == View(svgUrl[1], storageUnits, filterByDimensions, maxPriceInput, selectedUnits,
                    plano.svgContent)

\* dependency lists of the three effects
LoadEffectDeps(v) == <<v.svgUrl>>

\* effect 2 depending on the filter as well
InjectEffectDepsWithFilter(v) == <<v.svgContent, v.filterByDimensions>>

InjectEffectDeps(v) == <<v.svgContent>>

\* effect 3 not depending on the selection
RepaintEffectDepsWithoutSelection(v) ==
  <<v.svgContent, v.storageUnits, v.filterByDimensions, v.maxPrice>>

RepaintEffectDeps(v) ==
  <<v.svgContent, v.storageUnits, v.filterByDimensions, v.maxPrice, v.selectedUnits>>

\* the render: the host node exists only in the main layout, which is
\* returned when there is no load error and the markup is stored
HostRendered(p) == p.loadError = Null /\ p.svgContent # Null

Render(p) ==
  IF HostRendered(p) THEN p ELSE [p EXCEPT !.hostMarkup = Null, !.elems = NoElements]

\* cleanup of the load effect: cancelled = true in the closure of its fetch
CancelAll(fetches) == {[f EXCEPT !.cancelled = TRUE] : f \in fetches}

\* an Error message, with the number interpolated into it (0: none)
ErrorMessage(text, n) == [text |-> text, n |-> n]

\* effect 1: reset, resolve the url, start the fetch
LoadEffect(v, p) ==
  LET q == [p EXCEPT !.svgContent = Null, !.loadError = Null, !.matchWarning = Null]
  IN IF getSvgFullUrl(v.svgUrl) = Null
     THEN [q EXCEPT !.loadError = Some(ErrorMessage("La URL del plano SVG no es valida", 0))]
     ELSE [q EXCEPT !.loadSeq = p.loadSeq + 1,
                    !.fetches = p.fetches \cup {[id |-> p.loadSeq + 1,
                                                  url |-> getSvgFullUrl(v.svgUrl)[1],
                                                  cancelled |-> FALSE]}]

\* effect 2: host.innerHTML = svgContent; hostWas tells whether the render
\* the effect belongs to attached the host node
InjectEffect(v, hostWas, p) ==
  IF ~hostWas \/ v.svgContent = Null THEN p
  ELSE [p EXCEPT !.hostMarkup = v.svgContent, !.elems = ElementsOf(v.svgContent[1]),
                 !.fitFrame = TRUE]

\* the cleanup of effect 3 leaving the requested frame queued
CancelFrameNot(p) == [p EXCEPT !.frame = Null]

\* the cleanup of effect 3: cancelAnimationFrame(frame)
CancelFrame(p) ==
  IF p.frame = Null THEN p ELSE [p EXCEPT !.frame = Null, !.frames = p.frames \ {p.frame[1]}]

\* effect 3: request the frame; its closure holds the values of the render
RepaintEffect(v, hostWas, p) ==
  IF ~hostWas \/ v.svgContent = Null THEN p
  ELSE LET snap == [storageUnits |-> v.storageUnits,
                    filterByDimensions |-> v.filterByDimensions,
                    maxPrice |-> v.maxPrice,
                    selectedUnits |-> v.selectedUnits]
       IN [p EXCEPT !.frame = Some(snap), !.frames = p.frames \cup {snap}]

\* One commit of PlanoSVG: old is the view of the previous commit (Null on
\* mount), new the view rendered now, p the instance.  The cleanups of the
\* effects whose dependencies changed run first, then those effects in
\* source order; when they set state, the instance renders again.
RECURSIVE Commit(_, _, _)
Commit(old, new, p) ==
  LET hostWas == HostRendered(p)
      changed(deps(_)) == old = Null \/ deps(old[1]) # deps(new)
      p0 == Render(p)
      p1 == IF changed(LoadEffectDeps) THEN [p0 EXCEPT !.fetches = CancelAll(p0.fetches)] ELSE p0
      p2 == IF changed(RepaintEffectDeps) THEN CancelFrame(p1) ELSE p1
      p3 == IF changed(LoadEffectDeps) THEN LoadEffect(new, p2) ELSE p2
      p4 == IF changed(InjectEffectDeps) THEN InjectEffect(new, hostWas, p3) ELSE p3
      p5 == IF changed(RepaintEffectDeps) THEN RepaintEffect(new, hostWas, p4) ELSE p4
  IN IF p5.svgContent # p.svgContent \/ p5.loadError # p.loadError
     THEN Commit(Some(new), [new EXCEPT !.svgContent = p5.svgContent], p5)
     ELSE p5

\* ------------------------------------------------------------------------
\* SelectionStore: the wizard reducer
\* ------------------------------------------------------------------------

\* case 'TOGGLE_UNIT' with the two branches exchanged
ToggleUnitSwapped(sel, unit) ==
  IF SomeId(sel, unit.id) THEN Append(sel, unit) ELSE FilterOutId(sel, unit.id)

\* case 'TOGGLE_UNIT'
ToggleUnit(sel, unit) ==
  IF SomeId(sel, unit.id) THEN FilterOutId(sel, unit.id) ELSE Append(sel, unit)

\* case 'NEXT_STEP'
NextStepOf(s) == IF s + 1 < 5 THEN s + 1 ELSE 5

\* case 'PREV_STEP'
PrevStepOf(s) == IF s - 1 > 1 THEN s - 1 ELSE 1

\* ------------------------------------------------------------------------
\* Initial state: the wizard at its first step, nothing mounted below it
\* ------------------------------------------------------------------------

\* useState initial values of a submitting component (SummaryStep,
\* FormularioReserva): not loading, no submitError, no batch running
FormIdle == [loading |-> FALSE, submitError |-> Null, batch |-> Null]

\* initialState of the wizard with the selection step not mounted yet
WizardInitial ==
  /\ step = 1
  /\ startMode = Null
  /\ selectedUnits = <<>>
  /\ svgUrl = Null
  /\ storageUnits = <<>>
  /\ loading = TRUE
  /\ error = Null
  /\ filterByDimensions = Null
  /\ maxPriceInput = ""
  /\ planPending = FALSE
  /\ plano = PlanoInit
  /\ lastClick = Null
  /\ host = "wizard"
  /\ customer = Null
  /\ paymentMethod = Null
  /\ confirmed = FALSE
  /\ form = FormIdle

Init ==
  /\ WizardInitial
  /\ probe = Null

\* ------------------------------------------------------------------------
\* Wizard navigation; StorageSelectionStep mounts and unmounts with step 2
\* ------------------------------------------------------------------------

\* StorageSelectionStep mounts: useState initial values, then loadPlan()
MountSelectionStep ==
  /\ svgUrl' = Null
  /\ storageUnits' = <<>>
  /\ loading' = TRUE
  /\ error' = Null
  /\ filterByDimensions' = Null
  /\ maxPriceInput' = ""
  /\ planPending' = TRUE
  /\ plano' = PlanoInit

\* StorageSelectionStep unmounts with PlanoSVG below it: the effect cleanups
\* run (cancelled = true, cancelAnimationFrame) and the state of both is gone
UnmountSelectionStep ==
  /\ svgUrl' = Null
  /\ storageUnits' = <<>>
  /\ loading' = TRUE
  /\ error' = Null
  /\ filterByDimensions' = Null
  /\ maxPriceInput' = ""
  /\ planPending' = FALSE
  /\ plano' = PlanoInit

\* the main layout of StorageSelectionStep is rendered
LayoutShown == step = 2 /\ ~loading /\ error = Null

SetStartMode(m) ==
  /\ step = 1
  /\ startMode' = Some(m)
  /\ lastClick' = Null
  /\ UNCHANGED checkoutVars
  /\ UNCHANGED <<step, selectedUnits, svgUrl, storageUnits, loading, error,
                 filterByDimensions, maxPriceInput, planPending, plano>>

\* "Continuar" of StartModeStep and of StorageSelectionStep, "Ver resumen
\* final" of PaymentStep
NextStep ==
  /\ \/ step = 1 /\ startMode # Null /\ MountSelectionStep
     \/ LayoutShown /\ selectedUnits # <<>> /\ UnmountSelectionStep
     \/ /\ step = 4 /\ paymentMethod # Null
        /\ UNCHANGED <<svgUrl, storageUnits, loading, error, filterByDimensions,
                       maxPriceInput, planPending, plano>>
  /\ step' = NextStepOf(step)
  /\ lastClick' = Null
  /\ UNCHANGED checkoutVars
  /\ UNCHANGED <<startMode, selectedUnits>>

\* "Volver" of StorageSelectionStep, of CustomerFormStep, of PaymentStep and
\* of SummaryStep (disabled while it submits, absent on the success screen;
\* SummaryStep unmounts and its state is gone)
PrevStep ==
  /\ \/ LayoutShown /\ UnmountSelectionStep
     \/ step = 3 /\ MountSelectionStep
     \/ /\ step = 4 \/ (step = 5 /\ ~confirmed /\ ~form.loading)
        /\ UNCHANGED <<svgUrl, storageUnits, loading, error, filterByDimensions,
                       maxPriceInput, planPending, plano>>
  /\ step' = PrevStepOf(step)
  /\ lastClick' = Null
  /\ form' = FormIdle
  /\ UNCHANGED <<host, customer, paymentMethod, confirmed, probe>>
  /\ UNCHANGED <<startMode, selectedUnits>>

\* ------------------------------------------------------------------------
\* StorageSelectionStep: loadPlan, filters, the cards of the selected units
\* ------------------------------------------------------------------------

\* getPlan resolves: setSvgUrl, setStorageUnits, setLoading(false); PlanoSVG
\* mounts and its effects run for the first time
PlanLoaded(a) ==
  /\ step = 2 /\ planPending
  /\ plano.loadSeq < MaxLoads
  /\ planPending' = FALSE
  /\ svgUrl' = Some(a.svgUrl)
  /\ storageUnits' = a.storageUnits
  /\ loading' = FALSE
  /\ plano' = Commit(Null,
                     View(a.svgUrl, a.storageUnits, filterByDimensions, maxPriceInput,
                          selectedUnits, Null),
                     plano)
  /\ lastClick' = Null
  /\ UNCHANGED checkoutVars
  /\ UNCHANGED <<step, startMode, selectedUnits, error, filterByDimensions, maxPriceInput>>

\* getPlan rejects, or no plan url can be resolved: setError, setLoading(false)
PlanFailed ==
  /\ step = 2 /\ planPending
  /\ planPending' = FALSE
  /\ error' = Some("Error cargando el plano")
  /\ loading' = FALSE
  /\ lastClick' = Null
  /\ UNCHANGED checkoutVars
  /\ UNCHANGED <<step, startMode, selectedUnits, svgUrl, storageUnits, filterByDimensions,
                 maxPriceInput, plano>>

\* "Reintentar": loadPlan() again
RetryLoadPlan ==
  /\ step = 2 /\ ~loading /\ error # Null
  /\ loading' = TRUE
  /\ error' = Null
  /\ planPending' = TRUE
  /\ lastClick' = Null
  /\ UNCHANGED checkoutVars
  /\ UNCHANGED <<step, startMode, selectedUnits, svgUrl, storageUnits, filterByDimensions,
                 maxPriceInput, plano>>

\* PlanoSVG renders again with the props of the next state
Rerender ==
  plano' = Commit(Some(CurrentView),
                  View(svgUrl'[1], storageUnits', filterByDimensions', maxPriceInput',
                       selectedUnits', plano.svgContent),
                  plano)

\* a size button: setFilterByDimensions(filterByDimensions === d ? null : d)
ClickDimensionGroup(d) ==
  /\ LayoutShown
  /\ \E i \in 1..Len(storageUnits) : storageUnits[i].dimensions = d
  /\ filterByDimensions' = IF filterByDimensions = Some(d) THEN Null ELSE Some(d)
  /\ UNCHANGED <<step, startMode, selectedUnits, svgUrl, storageUnits, loading, error,
                 maxPriceInput, planPending>>
  /\ Rerender
  /\ lastClick' = Null
  /\ UNCHANGED checkoutVars

\* the max-price input: setMaxPriceInput(e.target.value)
TypeMaxPrice(text) ==
  /\ LayoutShown
  /\ text # maxPriceInput
  /\ maxPriceInput' = text
  /\ UNCHANGED <<step, startMode, selectedUnits, svgUrl, storageUnits, loading, error,
                 filterByDimensions, planPending>>
  /\ Rerender
  /\ lastClick' = Null
  /\ UNCHANGED checkoutVars

\* "Limpiar" dispatching CLEAR_UNITS as well
clearFiltersAndUnits ==
  /\ LayoutShown
  /\ filterByDimensions # Null \/ maxPriceInput # ""
  /\ filterByDimensions' = Null
  /\ maxPriceInput' = ""
  /\ selectedUnits' = <<>>
  /\ UNCHANGED <<step, startMode, svgUrl, storageUnits, loading, error,
                 planPending>>
  /\ Rerender
  /\ lastClick' = Null
  /\ UNCHANGED checkoutVars

\* "Limpiar", shown when hasFilters
clearFilters ==
  /\ LayoutShown
  /\ filterByDimensions # Null \/ maxPriceInput # ""
  /\ filterByDimensions' = Null
  /\ maxPriceInput' = ""
  /\ UNCHANGED <<step, startMode, selectedUnits, svgUrl, storageUnits, loading, error,
                 planPending>>
  /\ Rerender
  /\ lastClick' = Null
  /\ UNCHANGED checkoutVars

\* the remove button of a selected unit's card: dispatch TOGGLE_UNIT
RemoveCard(i) ==
  /\ LayoutShown
  /\ i \in 1..Len(selectedUnits)
  /\ selectedUnits' = ToggleUnit(selectedUnits, selectedUnits[i])
  /\ UNCHANGED <<step, startMode, svgUrl, storageUnits, loading, error, filterByDimensions,
                 maxPriceInput, planPending>>
  /\ Rerender
  /\ lastClick' = Null
  /\ UNCHANGED checkoutVars

\* the parent renders PlanoSVG with another svgUrl prop
ChangeSvgUrl(url) ==
  /\ Mounted
  /\ url # svgUrl[1]
  /\ plano.loadSeq < MaxLoads
  /\ svgUrl' = Some(url)
  /\ UNCHANGED <<step, startMode, selectedUnits, storageUnits, loading, error,
                 filterByDimensions, maxPriceInput, planPending>>
  /\ Rerender
  /\ lastClick' = Null
  /\ UNCHANGED checkoutVars

\* ------------------------------------------------------------------------
\* PlanoSVG: the fetch settles, the repaint frame, pointer events
\* ------------------------------------------------------------------------

hostVars == <<step, startMode, svgUrl, storageUnits, loading, error, filterByDimensions,
              maxPriceInput, planPending>>

\* what the promise chain of the load effect hands to its last callback:
\* the text for setSvgContent, or the message for setLoadError
FetchResult(o) ==
  IF o.kind = "network_error" THEN [ok |-> FALSE, value |-> ErrorMessage("Failed to fetch", 0)]
  ELSE IF ~ResponseOk(o.status) THEN [ok |-> FALSE, value |-> ErrorMessage("SVG HTTP", o.status)]
  ELSE IF ~IncludesSvgTag(o.text)
       THEN [ok |-> FALSE, value |-> ErrorMessage("La respuesta no contiene un SVG valido", 0)]
  ELSE [ok |-> TRUE, value |-> o.text]

\* the last callbacks of the chain without their 'if (cancelled) return'
ApplyFetchIgnoringCancelled(f, o, p) ==
  IF FetchResult(o).ok THEN [p EXCEPT !.svgContent = Some(FetchResult(o).value)]
  ELSE [p EXCEPT !.loadError = Some(FetchResult(o).value)]

\* the last callbacks of the chain: .then(text => ...) and .catch(err => ...)
ApplyFetch(f, o, p) ==
  IF f.cancelled THEN p
  ELSE IF FetchResult(o).ok THEN [p EXCEPT !.svgContent = Some(FetchResult(o).value)]
  ELSE [p EXCEPT !.loadError = Some(FetchResult(o).value)]

\* the fetch of a load effect settles with outcome o
FetchSettles(f, o) ==
  /\ f \in plano.fetches
  /\ LET p == ApplyFetch(f, o, [plano EXCEPT !.fetches = plano.fetches \ {f}])
     IN plano' = Commit(Some(CurrentView), [CurrentView EXCEPT !.svgContent = p.svgContent], p)
  /\ lastClick' = Null
  /\ UNCHANGED checkoutVars
  /\ UNCHANGED <<hostVars, selectedUnits>>

\* the loop of the repaint frame installing its handlers with addEventListener
RECURSIVE PaintUnitsAddingListeners(_, _, _)
PaintUnitsAddingListeners(units, snap, els) ==
  IF units = <<>> THEN els
  ELSE LET unit == Head(units)
           el == findSvgElement(DOMAIN els, unit.shapeId)
       IN PaintUnitsAddingListeners(Tail(units), snap,
            IF el = Null THEN els
            ELSE [els EXCEPT ![el[1]] =
                   [fill |-> getFill(unit, snap.filterByDimensions,
                                     IdSet(snap.selectedUnits), snap.maxPrice),
                    cursor |-> IF isClickable(unit, snap.filterByDimensions, snap.maxPrice)
                               THEN "pointer" ELSE "default",
                    unit |-> Some(unit),
                    onclick |-> els[el[1]].onclick \o <<unit>>,
                    onmouse |-> els[el[1]].onmouse + 1]])

\* the loop of the repaint frame over storageUnits: fill, cursor, handlers
RECURSIVE PaintUnits(_, _, _)
PaintUnits(units, snap, els) ==
  IF units = <<>> THEN els
  ELSE LET unit == Head(units)
           el == findSvgElement(DOMAIN els, unit.shapeId)
       IN PaintUnits(Tail(units), snap,
            IF el = Null THEN els
            ELSE [els EXCEPT ![el[1]] =
                   [fill |-> getFill(unit, snap.filterByDimensions,
                                     IdSet(snap.selectedUnits), snap.maxPrice),
                    cursor |-> IF isClickable(unit, snap.filterByDimensions, snap.maxPrice)
                               THEN "pointer" ELSE "default",
                    unit |-> Some(unit),
                    onclick |-> <<unit>>,
                    onmouse |-> 1]])

\* missing: the shapeIds of the units without an element, in unit order
RECURSIVE MissingShapes(_, _)
MissingShapes(units, ids) ==
  IF units = <<>> THEN <<>>
  ELSE (IF findSvgElement(ids, Head(units).shapeId) = Null THEN <<Head(units).shapeId>> ELSE <<>>)
       \o MissingShapes(Tail(units), ids)

\* the frame without the test of matched === 0
MatchWarningOfPartialOnly(units, ids) ==
  IF Len(MissingShapes(units, ids)) > 0
  THEN Some([kind |-> "sin correspondencia", count |-> Len(MissingShapes(units, ids))])
  ELSE Null

\* the warning the frame sets after its loop
MatchWarningOf(units, ids) ==
  LET missing == MissingShapes(units, ids)
      matched == Len(units) - Len(missing)
  IN IF Len(units) > 0 /\ matched = 0
     THEN Some([kind |-> "ninguno coincide", count |-> Len(missing)])
     ELSE IF Len(missing) > 0
     THEN Some([kind |-> "sin correspondencia", count |-> Len(missing)])
     ELSE Null

\* the callback of requestAnimationFrame of effect 3
RepaintFrame ==
  /\ Mounted
  /\ \E snap \in plano.frames :
       LET p == [plano EXCEPT !.frames = plano.frames \ {snap},
                              !.frame = IF plano.frame = Some(snap) THEN Null ELSE plano.frame]
       IN plano' =
            IF plano.hostMarkup = Null \/ ~HasSvgElement(plano.hostMarkup[1])
            THEN p
            ELSE [p EXCEPT !.elems = PaintUnits(snap.storageUnits, snap, plano.elems),
                           !.matchWarning = MatchWarningOf(snap.storageUnits,
                                                           DOMAIN plano.elems)]
  /\ lastClick' = Null
  /\ UNCHANGED checkoutVars
  /\ UNCHANGED <<hostVars, selectedUnits>>

\* el.onclick without the isClickable test
OnClickUnguarded(unit, sel, fd, mp) == ToggleUnit(sel, unit)

\* el.onclick of a painted element; unit is the one its closure captured
OnClick(unit, sel, fd, mp) ==
  IF ~isClickable(unit, fd, mp) THEN sel ELSE ToggleUnit(sel, unit)

\* a click on the shape e: every click handler of the element runs
ClickShape(e) ==
  /\ Mounted
  /\ e \in DOMAIN plano.elems
  /\ plano.elems[e].unit # Null
  /\ LET RECURSIVE dispatch(_, _)
         dispatch(handlers, sel) ==
           IF handlers = <<>> THEN sel
           ELSE dispatch(Tail(handlers),
                         OnClick(Head(handlers), sel, filterByDimensions,
                                 MaxPriceOf(maxPriceInput)))
     IN selectedUnits' = dispatch(plano.elems[e].onclick, selectedUnits)
  /\ UNCHANGED hostVars
  /\ Rerender
  /\ lastClick' = Some([el |-> e, unit |-> plano.elems[e].unit[1], before |-> selectedUnits])
  /\ UNCHANGED checkoutVars

\* el.onmouseenter
MouseEnter(e, pos) ==
  /\ Mounted
  /\ e \in DOMAIN plano.elems
  /\ plano.elems[e].unit # Null
  /\ plano' = [plano EXCEPT !.tooltip = Some([unit |-> plano.elems[e].unit[1], pos |-> pos])]
  /\ lastClick' = Null
  /\ UNCHANGED checkoutVars
  /\ UNCHANGED <<hostVars, selectedUnits>>

\* el.onmousemove
MouseMove(e, pos) ==
  /\ Mounted
  /\ e \in DOMAIN plano.elems
  /\ plano.elems[e].unit # Null
  /\ plano' = [plano EXCEPT !.tooltip = IF plano.tooltip # Null
                                        THEN Some([plano.tooltip[1] EXCEPT !.pos = pos])
                                        ELSE Null]
  /\ lastClick' = Null
  /\ UNCHANGED checkoutVars
  /\ UNCHANGED <<hostVars, selectedUnits>>

\* el.onmouseleave
MouseLeave(e) ==
  /\ Mounted
  /\ e \in DOMAIN plano.elems
  /\ plano.elems[e].unit # Null
  /\ plano' = [plano EXCEPT !.tooltip = Null]
  /\ lastClick' = Null
  /\ UNCHANGED checkoutVars
  /\ UNCHANGED <<hostVars, selectedUnits>>

\* ------------------------------------------------------------------------
\* Specification
\* ------------------------------------------------------------------------

Next ==
  \/ \E m \in StartModes : SetStartMode(m)
  \/ NextStep
  \/ PrevStep
  \/ \E a \in PlanAnswers : PlanLoaded(a)
  \/ PlanFailed
  \/ RetryLoadPlan
  \/ \E d \in {2, 3} : ClickDimensionGroup(d)
  \/ \E text \in PriceInputs : TypeMaxPrice(text)
  \/ clearFilters
  \/ \E i \in 1..Len(selectedUnits) : RemoveCard(i)
  \/ \E url \in SvgUrls : ChangeSvgUrl(url)
  \/ \E f \in plano.fetches : \E o \in FetchOutcomes(f.url) : FetchSettles(f, o)
  \/ RepaintFrame
  \/ \E e \in DOMAIN plano.elems : ClickShape(e)
  \/ \E e \in DOMAIN plano.elems, pos \in Positions : MouseEnter(e, pos)
  \/ \E e \in DOMAIN plano.elems, pos \in Positions : MouseMove(e, pos)
  \/ \E e \in DOMAIN plano.elems : MouseLeave(e)

Spec == Init /\ [][Next]_vars

\* ------------------------------------------------------------------------
\* ShapeIdMatcher examined on its own: a shape identifier and a document
\* are drawn, then the identifier is resolved against the document
\* ------------------------------------------------------------------------

\* longest shape identifier drawn
MaxShapeLen == 4

ShapeAlphabet == {"t", "T", "0", "1", "2", " "}

ShapeIds == UNION {[1..n -> ShapeAlphabet] : n \in 0..MaxShapeLen}

\* the ids of the elements of the documents drawn
ResolveDocs ==
  { {},
    {<<"T", "1", "2">>},
    {<<"t", "1", "2">>, <<"T", "1", "2">>},
    {<<"T", "0", "1">>, <<"T", "0", "0", "1">>},
    {<<"T", "1">>, <<"T", " ", "1">>, <<"T", "T", "0", "2">>} }

ResolveInit ==
  /\ WizardInitial
  /\ probe \in {[op |-> "findSvgElement", shapeId |-> s, ids |-> d, out |-> Null] :
                  s \in ShapeIds, d \in ResolveDocs}

\* findSvgElement(svgEl, shapeId), with the variants it went through
FindShape ==
  /\ probe # Null
  /\ probe.op = "findSvgElement"
  /\ probe.out = Null
  /\ probe' = [probe EXCEPT !.out = Some([variants |-> getShapeIdVariants(probe.shapeId),
                                          el |-> findSvgElement(probe.ids, probe.shapeId)])]
  /\ UNCHANGED <<step, startMode, selectedUnits, svgUrl, storageUnits, loading, error,
                 filterByDimensions, maxPriceInput, planPending, plano, lastClick,
                 host, customer, paymentMethod, confirmed, form>>

ResolveNext == FindShape

ResolveSpec == ResolveInit /\ [][ResolveNext]_vars

\* ------------------------------------------------------------------------
\* The binding of units to shapes: the selection step with plans whose
\* shape identifiers are drawn, against a document of two shapes
\* ------------------------------------------------------------------------

\* most units of a plan drawn
MaxPaintUnits == 2

\* shapeId values of the backend: two spellings of one shape, a spelling
\* in lower case, a shape the document does not hold, a blank one
PaintShapeIds ==
  { <<"T", "1">>, <<"T", "0", "1">>, <<"t", "1", "2">>, <<"X", "5">>, <<" ">> }

PaintUnitIds == <<"u1", "u2", "u3", "u4">>

\* the surfaces drawn: 2 for "2x1", 0 for a text computeDimensions cannot read;
\* the units with no readable surface are listed first
PaintUnitLists ==
  UNION { { [i \in 1..n |-> Unit(PaintUnitIds[i], i, shapes[i], "AVAILABLE", 80,
                                 IF i <= zeros THEN 0 ELSE 2,
                                 IF i <= zeros THEN "abc" ELSE "2x1")] :
              shapes \in [1..n -> PaintShapeIds], zeros \in 0..n } :
          n \in 0..MaxPaintUnits }

PaintAnswers == {[svgUrl |-> "/planos/c.svg", storageUnits |-> units] : units \in PaintUnitLists}

\* the selection step right after it mounted: loadPlan() is running
PaintInit ==
  /\ step = 2
  /\ startMode = Some("immediate")
  /\ selectedUnits = <<>>
  /\ svgUrl = Null
  /\ storageUnits = <<>>
  /\ loading = TRUE
  /\ error = Null
  /\ filterByDimensions = Null
  /\ maxPriceInput = ""
  /\ planPending = TRUE
  /\ plano = PlanoInit
  /\ lastClick = Null
  /\ host = "wizard"
  /\ customer = Null
  /\ paymentMethod = Null
  /\ confirmed = FALSE
  /\ form = FormIdle
  /\ probe = Null

PaintNext ==
  \/ \E a \in PaintAnswers : PlanLoaded(a)
  \/ \E f \in plano.fetches : \E o \in FetchOutcomes(f.url) : FetchSettles(f, o)
  \/ RepaintFrame
  \/ \E e \in DOMAIN plano.elems : ClickShape(e)
  \/ \E d \in {0, 2} : ClickDimensionGroup(d)

PaintSpec == PaintInit /\ [][PaintNext]_vars

\* The browser runs a requested animation frame at its next repaint unless
\* the frame was cancelled: weak fairness of RepaintFrame, WF_vars(RepaintFrame),
\* written out with the condition under which the frame can run.
PaintFairSpec ==
  PaintSpec /\ ([]<>~(Mounted /\ plano.frames # {}) \/ []<><<RepaintFrame>>_vars)

\* ------------------------------------------------------------------------
\* computeDimensions examined on its own: a raw unit is drawn, then its
\* surface is computed
\* ------------------------------------------------------------------------

\* longest dimensions string drawn character by character
MaxDimLen == 4

DimAlphabet == {"0", "2", ",", ".", "x", " ", "a"}

\* the texts of at most len characters
DimTexts(len) == UNION {[1..n -> DimAlphabet] : n \in 0..len}

\* the fields of RawStorageUnit computeDimensions reads
RawUnit(dimensions, area, width, height, length) ==
  [dimensions |-> dimensions, area |-> area, width |-> width, height |-> height,
   length |-> length]

\* operands as the backend writes them, each with the number it denotes
Operands ==
  { [text |-> <<"2">>, value |-> Dec(2, 0)],
    [text |-> <<"1">>, value |-> Dec(1, 0)],
    [text |-> <<"1", "0">>, value |-> Dec(10, 0)],
    [text |-> <<"2", ",", "5">>, value |-> Dec(25, 1)],
    [text |-> <<"2", ".", "5">>, value |-> Dec(25, 1)],
    [text |-> <<"0", ",", "5">>, value |-> Dec(5, 1)],
    [text |-> <<"0">>, value |-> Dec(0, 0)],
    [text |-> <<"0", ".", "0">>, value |-> Dec(0, 0)] }

Separators == {"x", "X", MultiplicationSign, "*"}

\* <a><sep><b>, also with white space around the separator
PairTexts ==
  {a.text \o pad \o <<sep>> \o pad \o b.text :
     a \in Operands, b \in Operands, sep \in Separators, pad \in {<<>>, <<" ">>}}

\* values of a numeric field: missing, negative, zero, positive
FieldValues(n) == {Undefined, NumberValue(Dec(-1, 0)), NumberValue(Zero), NumberValue(Dec(n, 0))}

\* all other fields missing, or all of them positive
OtherFields ==
  { [area |-> Undefined, width |-> Undefined, height |-> Undefined, length |-> Undefined],
    [area |-> NumberValue(Dec(3, 0)), width |-> NumberValue(Dec(2, 0)),
     height |-> NumberValue(Dec(4, 0)), length |-> NumberValue(Dec(5, 0))] }

\* values of the dimensions field when the other fields vary
DimensionsValues ==
  { Undefined, NumberValue(Zero), NumberValue(Dec(6, 0)), StringValue(<<>>),
    StringValue(<<"a">>), StringValue(<<"0", "x", "5">>), StringValue(<<"3">>),
    StringValue(<<"2", "x", "3">>), StringValue(<<"2", "x", "0">>),
    StringValue(<<"3", "a", "b", "c">>) }

\* the raw units whose dimensions field is one of texts or a pair text, and
\* those whose numeric fields vary
RawUnits(texts) ==
  {RawUnit(StringValue(t), o.area, o.width, o.height, o.length) :
     t \in texts \cup PairTexts, o \in OtherFields}
  \cup
  {RawUnit(dv, a, w, h, l) :
     dv \in DimensionsValues, a \in FieldValues(3), w \in FieldValues(2),
     h \in {Undefined, NumberValue(Zero), NumberValue(Dec(4, 0))},
     l \in {Undefined, NumberValue(Zero), NumberValue(Dec(5, 0))}}

DimensionsInit ==
  /\ WizardInitial
  /\ \E r \in RawUnits(DimTexts(MaxDimLen)) :
       \/ probe = [op |-> "computeDimensions", raw |-> r, out |-> Null]
       \/ \E st \in {"AVAILABLE", "RESERVED"} :
            probe = [op |-> "enrichUnit",
                     raw |-> [id |-> "u1", number |-> 12, shapeId |-> <<"t", "1", "2">>,
                              status |-> st, type |-> "STANDARD", price |-> 80,
                              dimensions |-> r.dimensions, area |-> r.area, width |-> r.width,
                              height |-> r.height, length |-> r.length],
                     out |-> Null]

\* computeDimensions(raw)
ComputeDimensions ==
  /\ probe # Null
  /\ probe.op = "computeDimensions"
  /\ probe.out = Null
  /\ probe' = [probe EXCEPT !.out = Some(computeDimensions(probe.raw))]
  /\ UNCHANGED <<step, startMode, selectedUnits, svgUrl, storageUnits, loading, error,
                 filterByDimensions, maxPriceInput, planPending, plano, lastClick,
                 host, customer, paymentMethod, confirmed, form>>

\* enrichUnit(raw), applied to each unit of a plan answer
EnrichUnit ==
  /\ probe # Null
  /\ probe.op = "enrichUnit"
  /\ probe.out = Null
  /\ probe' = [probe EXCEPT !.out = Some(enrichUnit(probe.raw))]
  /\ UNCHANGED <<step, startMode, selectedUnits, svgUrl, storageUnits, loading, error,
                 filterByDimensions, maxPriceInput, planPending, plano, lastClick,
                 host, customer, paymentMethod, confirmed, form>>

DimensionsNext == ComputeDimensions \/ EnrichUnit

DimensionsSpec == DimensionsInit /\ [][DimensionsNext]_vars

\* ------------------------------------------------------------------------
\* SummaryStep: the last step of the wizard confirms the reservations of
\* the selected units one request after the other
\* ------------------------------------------------------------------------

\* most units of a batch
MaxBatch == 3

\* a plan whose three units can all be selected
PlanUnitsC ==
  << Unit("u1", 12, <<"t", "1", "2">>, "AVAILABLE", 80, 2, "2x1"),
     Unit("u2", 7, <<"T", "7">>, "AVAILABLE", 100, 3, "3x1"),
     Unit("u3", 5, <<"X", "5">>, "AVAILABLE", 50, 2, "2x1") >>

\* the selections the plan allows: units toggled on in any order
Selections ==
  UNION { {sel \in [1..n -> Range(PlanUnitsC)] : \A i, j \in 1..n : i # j => sel[i] # sel[j]} :
            n \in 1..MaxBatch }

\* the locals of a running handler: the units of its closure, the index of
\* the request awaited, the ids reserved and the numbers failed so far;
\* outcomes keeps how the requests settled, in the order of the units
Batch(units) ==
  [units |-> units, i |-> 1, reservedIds |-> <<>>, failed |-> <<>>, outcomes |-> <<>>]

\* the loop leaving at the first request that fails
BatchStepBreakingOnFailure(b, ok) ==
  [b EXCEPT !.i = IF ok THEN b.i + 1 ELSE Len(b.units) + 1,
            !.outcomes = Append(b.outcomes, ok),
            !.reservedIds = IF ok THEN Append(b.reservedIds, b.units[b.i].id) ELSE b.reservedIds,
            !.failed = IF ok THEN b.failed ELSE Append(b.failed, b.units[b.i].number)]

\* the awaited request settles: reservedIds.push(unit.id) or, in the catch
\* block, failed.push(unit.number)
BatchStep(b, ok) ==
  [b EXCEPT !.i = b.i + 1,
            !.outcomes = Append(b.outcomes, ok),
            !.reservedIds = IF ok THEN Append(b.reservedIds, b.units[b.i].id) ELSE b.reservedIds,
            !.failed = IF ok THEN b.failed ELSE Append(b.failed, b.units[b.i].number)]

\* the loop of the handler has ended
BatchDone(b) == b.i > Len(b.units)

\* the texts of setSubmitError with the values interpolated into them
SubmitError(kind, reserved, total, failed) ==
  [kind |-> kind, reserved |-> reserved, total |-> total, failed |-> failed]

\* the wizard at its last step: customer and payment method are set
ConfirmInit ==
  /\ step = 5
  /\ startMode \in {Some(m) : m \in StartModes}
  /\ selectedUnits \in Selections
  /\ svgUrl = Null
  /\ storageUnits = <<>>
  /\ loading = TRUE
  /\ error = Null
  /\ filterByDimensions = Null
  /\ maxPriceInput = ""
  /\ planPending = FALSE
  /\ plano = PlanoInit
  /\ lastClick = Null
  /\ host = "wizard"
  /\ customer = Some("customer")
  /\ paymentMethod = Some("card")
  /\ confirmed = FALSE
  /\ form = FormIdle
  /\ probe = Null

\* what SummaryStep renders of its submitError: the success screen and the
\* missing-data screen hold no message
VisibleSubmitError ==
  IF step = 5 /\ ~confirmed /\ customer # Null /\ paymentMethod # Null /\ startMode # Null
  THEN form.submitError ELSE Null

\* the end of handleConfirm after its loop: the message, and whether
\* CONFIRM is dispatched
AfterConfirmLoop(b) ==
  IF Len(b.failed) = Len(b.units)
  THEN [submitError |-> Some(SubmitError("ninguna reserva", 0, Len(b.units), <<>>)),
        confirm |-> FALSE]
  ELSE IF Len(b.failed) > 0
  THEN [submitError |-> Some(SubmitError("reservados n de m", Len(b.units) - Len(b.failed),
                                         Len(b.units), b.failed)),
        confirm |-> TRUE]
  ELSE [submitError |-> Null, confirm |-> TRUE]

\* "Confirmar reserva": setSubmitError(null), setLoading(true), the first
\* request is sent
handleConfirm ==
  /\ step = 5 /\ ~confirmed
  /\ customer # Null /\ paymentMethod # Null /\ startMode # Null
  /\ ~form.loading
  /\ form' = [loading |-> TRUE, submitError |-> Null, batch |-> Some(Batch(selectedUnits))]
  /\ UNCHANGED <<step, startMode, selectedUnits, svgUrl, storageUnits, loading, error,
                 filterByDimensions, maxPriceInput, planPending, plano, lastClick,
                 host, customer, paymentMethod, confirmed, probe>>

\* createFullReservation settles: the loop goes on to the next unit or, after
\* the last one, the rest of handleConfirm runs (batch then keeps what the
\* handler that returned had collected)
FullReservationSettles(ok) ==
  /\ host = "wizard" /\ form.loading /\ form.batch # Null
  /\ LET b == BatchStep(form.batch[1], ok)
     IN IF BatchDone(b)
        THEN /\ form' = [loading |-> FALSE, submitError |-> AfterConfirmLoop(b).submitError,
                         batch |-> Some(b)]
             /\ confirmed' = (confirmed \/ AfterConfirmLoop(b).confirm)
        ELSE /\ form' = [form EXCEPT !.batch = Some(b)]
             /\ UNCHANGED confirmed
  /\ UNCHANGED <<step, startMode, selectedUnits, svgUrl, storageUnits, loading, error,
                 filterByDimensions, maxPriceInput, planPending, plano, lastClick,
                 host, customer, paymentMethod, probe>>

ConfirmNext ==
  \/ handleConfirm
  \/ \E ok \in BOOLEAN : FullReservationSettles(ok)

ConfirmSpec == ConfirmInit /\ [][ConfirmNext]_vars

\* ------------------------------------------------------------------------
\* The wizard from its first step to the confirmation
\* ------------------------------------------------------------------------

\* handleContinue dispatching NEXT_STEP without SET_CUSTOMER
handleContinueNotStoring(valid) ==
  /\ step = 3
  /\ valid
  /\ step' = NextStepOf(step)
  /\ UNCHANGED <<startMode, selectedUnits, svgUrl, storageUnits, loading, error,
                 filterByDimensions, maxPriceInput, planPending, plano, lastClick,
                 host, customer, paymentMethod, confirmed, form, probe>>

\* "Continuar" of CustomerFormStep: a form that does not validate keeps the
\* step (valid is false), a valid one is stored and the wizard goes on
handleContinue(valid) ==
  /\ step = 3
  /\ valid
  /\ customer' = Some("customer")
  /\ step' = NextStepOf(step)
  /\ UNCHANGED <<startMode, selectedUnits, svgUrl, storageUnits, loading, error,
                 filterByDimensions, maxPriceInput, planPending, plano, lastClick,
                 host, paymentMethod, confirmed, form, probe>>

\* a payment method button of PaymentStep
SetPaymentMethod(m) ==
  /\ step = 4
  /\ paymentMethod' = Some(m)
  /\ UNCHANGED <<step, startMode, selectedUnits, svgUrl, storageUnits, loading, error,
                 filterByDimensions, maxPriceInput, planPending, plano, lastClick,
                 host, customer, confirmed, form, probe>>

WizardNext ==
  \/ \E m \in StartModes : SetStartMode(m)
  \/ NextStep
  \/ PrevStep
  \/ \E a \in PlanAnswers : PlanLoaded(a)
  \/ \E f \in plano.fetches : \E o \in FetchOutcomes(f.url) : FetchSettles(f, o)
  \/ RepaintFrame
  \/ \E e \in DOMAIN plano.elems : ClickShape(e)
  \/ \E valid \in BOOLEAN : handleContinue(valid)
  \/ \E m \in {"card", "transfer"} : SetPaymentMethod(m)
  \/ handleConfirm
  \/ \E ok \in BOOLEAN : FullReservationSettles(ok)

WizardSpec == Init /\ [][WizardNext]_vars

\* ------------------------------------------------------------------------
\* ReservasPage: the plan with PanelLateral and FormularioReserva beside it
\* ------------------------------------------------------------------------

\* handleReservationSuccess marking every unit of the plan
MarkReservedAll(units, ids) == [k \in 1..Len(units) |-> [units[k] EXCEPT !.status = "RESERVED"]]

\* handleReservationSuccess removing the reserved units from the plan
RECURSIVE MarkReservedRemoving(_, _)
MarkReservedRemoving(units, ids) ==
  IF units = <<>> THEN <<>>
  ELSE (IF Head(units).id \in ids THEN <<>> ELSE <<Head(units)>>)
       \o MarkReservedRemoving(Tail(units), ids)

\* handleReservationSuccess: storageUnits.map(u => ids.has(u.id) ? {...u, status: 'RESERVED'} : u)
MarkReserved(units, ids) ==
  [k \in 1..Len(units) |->
     IF units[k].id \in ids THEN [units[k] EXCEPT !.status = "RESERVED"] ELSE units[k]]

\* the page after loadPlan has set the plan: PlanoSVG has mounted and its
\* effects have run for the first time
PageInit ==
  /\ step = 1
  /\ startMode = Null
  /\ selectedUnits = <<>>
  /\ svgUrl = Some("/planos/b.svg")
  /\ storageUnits = PlanUnitsC
  /\ loading = FALSE
  /\ error = Null
  /\ filterByDimensions = Null
  /\ maxPriceInput = ""
  /\ planPending = FALSE
  /\ plano = Commit(Null, View("/planos/b.svg", storageUnits, Null, "", <<>>, Null), PlanoInit)
  /\ lastClick = Null
  /\ host = "page"
  /\ customer = Null
  /\ paymentMethod = Null
  /\ confirmed = FALSE
  /\ form = FormIdle
  /\ probe = Null

\* the main layout of ReservasPage is rendered
PageShown == host = "page" /\ ~loading /\ error = Null /\ svgUrl # Null

\* a size button of PanelLateral: onFilterChange(isActive ? null : group.dimensions)
onFilterChange(d) ==
  /\ PageShown
  /\ \E i \in 1..Len(storageUnits) : storageUnits[i].dimensions = d
  /\ filterByDimensions' = IF filterByDimensions = Some(d) THEN Null ELSE Some(d)
  /\ lastClick' = Null
  /\ UNCHANGED <<step, startMode, selectedUnits, svgUrl, storageUnits, loading, error,
                 maxPriceInput, planPending, host, customer, paymentMethod, confirmed, form,
                 probe>>
  /\ Rerender

\* "Limpiar" of PanelLateral and "Cancelar" of the form: setSelectedUnits([])
onClearSelection ==
  /\ PageShown
  /\ selectedUnits # <<>>
  /\ selectedUnits' = <<>>
  /\ lastClick' = Null
  /\ UNCHANGED <<step, startMode, svgUrl, storageUnits, loading, error, filterByDimensions,
                 maxPriceInput, planPending, host, customer, paymentMethod, confirmed, form,
                 probe>>
  /\ Rerender

\* the form is submitted: setSubmitError(null), validate(), setLoading(true),
\* the first request is sent; valid is the result of validate()
handleSubmit(valid) ==
  /\ PageShown
  /\ selectedUnits # <<>>
  /\ ~form.loading
  /\ form' = IF valid
             THEN [loading |-> TRUE, submitError |-> Null, batch |-> Some(Batch(selectedUnits))]
             ELSE [form EXCEPT !.submitError = Null]
  /\ UNCHANGED <<step, startMode, selectedUnits, svgUrl, storageUnits, loading, error,
                 filterByDimensions, maxPriceInput, planPending, plano, lastClick,
                 host, customer, paymentMethod, confirmed, probe>>

\* createReservation settles: the loop goes on to the next unit or, after
\* the last one, the rest of handleSubmit runs and, with it,
\* handleReservationSuccess
ReservationSettles(ok) ==
  /\ host = "page" /\ form.loading /\ form.batch # Null
  /\ LET b == BatchStep(form.batch[1], ok)
     IN IF BatchDone(b)
        THEN /\ form' = [loading |-> FALSE,
                         submitError |->
                           IF Len(b.failed) > 0
                           THEN Some(SubmitError("error al reservar", Len(b.reservedIds),
                                                 Len(b.units), b.failed))
                           ELSE Null,
                         batch |-> Null]
             /\ storageUnits' = IF Len(b.reservedIds) > 0
                                THEN MarkReserved(storageUnits, Range(b.reservedIds))
                                ELSE storageUnits
             /\ selectedUnits' = IF Len(b.reservedIds) > 0 THEN <<>> ELSE selectedUnits
        ELSE /\ form' = [form EXCEPT !.batch = Some(b)]
             /\ UNCHANGED <<storageUnits, selectedUnits>>
  /\ lastClick' = Null
  /\ UNCHANGED <<step, startMode, svgUrl, loading, error, filterByDimensions, maxPriceInput,
                 planPending, host, customer, paymentMethod, confirmed, probe>>
  /\ Rerender

\* the user acts on a plan that has been painted: an animation frame runs
\* within milliseconds of the render that requested it
PlanPainted == plano.frame = Null

PageNext ==
  \/ \E f \in plano.fetches : \E o \in FetchOutcomes(f.url) : FetchSettles(f, o)
  \/ RepaintFrame
  \/ \E e \in DOMAIN plano.elems : PlanPainted /\ ClickShape(e)
  \/ \E d \in {2} : PlanPainted /\ onFilterChange(d)
  \/ PlanPainted /\ onClearSelection
  \/ \E valid \in BOOLEAN : PlanPainted /\ handleSubmit(valid)
  \/ \E ok \in BOOLEAN : ReservationSettles(ok)

PageSpec == PageInit /\ [][PageNext]_vars

\* both hosts of a batch of reservations: the last step of the wizard, or
\* the page with its form
BatchSpec == (ConfirmInit \/ PageInit) /\ [][ConfirmNext \/ PageNext]_vars

\* the page with clicks on the shapes at any moment, also between a render
\* and the animation frame it requested
RaceNext ==
  \/ \E f \in plano.fetches : \E o \in FetchOutcomes(f.url) : FetchSettles(f, o)
  \/ RepaintFrame
  \/ \E e \in DOMAIN plano.elems : ClickShape(e)
  \/ \E valid \in BOOLEAN : PlanPainted /\ handleSubmit(valid)
  \/ \E ok \in BOOLEAN : ReservationSettles(ok)

RaceSpec == PageInit /\ [][RaceNext]_vars

\* ------------------------------------------------------------------------
\* PlanoSVG: auto-fit and manual zoom of the plan shown by ReservasPage
\* ------------------------------------------------------------------------

\* the callback of requestAnimationFrame of effect 2: the scale that fits
\* the document into the container, less the padding.  The container is
\* 1032 x 632; the viewBox of a document is 1000 x 600 (docA), 20000 x 12000
\* (docB) or 100 x 60 (docC): with these the quotients are exact in
\* ten-thousandths.
FitFrame ==
  /\ plano.fitFrame
  /\ LET container == [clientWidth |-> 1032, clientHeight |-> 632]
         text == IF plano.hostMarkup = Null THEN "" ELSE plano.hostMarkup[1]
         svgW == IF text = "docA" THEN 1000 ELSE IF text = "docB" THEN 20000
                 ELSE IF text = "docC" THEN 100 ELSE 0
         svgH == IF text = "docA" THEN 600 ELSE IF text = "docB" THEN 12000
                 ELSE IF text = "docC" THEN 60 ELSE 0
         pad == 32
         availW == container.clientWidth - pad
         availH == container.clientHeight - pad
         qW == (availW * ScaleOne) \div svgW
         qH == (availH * ScaleOne) \div svgH
         fit == ((IF qW < qH THEN qW ELSE qH) * 97) \div 100
     IN plano' = IF HasSvgElement(text) /\ svgW > 0 /\ svgH > 0 /\ fit > 0
                 THEN [plano EXCEPT !.fitFrame = FALSE, !.scale = fit, !.fitScale = fit]
                 ELSE [plano EXCEPT !.fitFrame = FALSE]
  /\ lastClick' = Null
  /\ UNCHANGED checkoutVars
  /\ UNCHANGED <<hostVars, selectedUnits>>

\* the button "Reducir zoom": setScale(s => Math.max(0.1, s - 0.15))
ZoomOut ==
  /\ Mounted
  /\ HostRendered(plano)
  /\ LET s == plano.scale - (15 * ScaleOne) \div 100
         min == ScaleOne \div 10
     IN plano' = [plano EXCEPT !.scale = IF s < min THEN min ELSE s]
  /\ lastClick' = Null
  /\ UNCHANGED checkoutVars
  /\ UNCHANGED <<hostVars, selectedUnits>>

\* the button "Ampliar zoom": setScale(s => Math.min(4, s + 0.15))
ZoomIn ==
  /\ Mounted
  /\ HostRendered(plano)
  /\ LET s == plano.scale + (15 * ScaleOne) \div 100
         max == 4 * ScaleOne
     IN plano' = [plano EXCEPT !.scale = IF s > max THEN max ELSE s]
  /\ lastClick' = Null
  /\ UNCHANGED checkoutVars
  /\ UNCHANGED <<hostVars, selectedUnits>>

\* the button "Ajustar al contenedor": setScale(fitScale)
ResetToFit ==
  /\ Mounted
  /\ HostRendered(plano)
  /\ plano' = [plano EXCEPT !.scale = plano.fitScale]
  /\ lastClick' = Null
  /\ UNCHANGED checkoutVars
  /\ UNCHANGED <<hostVars, selectedUnits>>

\* The page shows its plan.  The wheel listener is not among the
\* steps: its effect runs once, after the first render, which returns the
\* placeholder of a plan being loaded, so containerRef.current is null and
\* the effect returns before addEventListener.
ZoomNext ==
  \/ \E f \in plano.fetches : \E o \in FetchOutcomes(f.url) : FetchSettles(f, o)
  \/ RepaintFrame
  \/ FitFrame
  \/ ZoomOut
  \/ ZoomIn
  \/ ResetToFit

ZoomSpec == PageInit /\ [][ZoomNext]_vars

\* ------------------------------------------------------------------------
\* Properties
\* ------------------------------------------------------------------------

\* C1: a selected unit stays interactive for removal whatever the active
\* filters are: for a selected available unit isClickable is true even when
\* the dimension or price filter excludes it, and a click on the shape of a
\* unit that was selected removes it from the selection.
C1_SelectedUnitRemovable ==
  /\ LayoutShown =>
       \A i \in 1..Len(selectedUnits) :
         selectedUnits[i].status = "AVAILABLE"
           => isClickable(selectedUnits[i], filterByDimensions, MaxPriceOf(maxPriceInput))
  /\ (lastClick # Null /\ lastClick[1].unit.status = "AVAILABLE"
        /\ SomeId(lastClick[1].before, lastClick[1].unit.id))
       => ~SomeId(selectedUnits, lastClick[1].unit.id)

\* C2: while the plan is shown, every selected unit is a member of the
\* current unit collection: a selection made before a plan reload does not
\* keep units the reloaded collection no longer holds.
C2_SelectionWithinCollection ==
  LayoutShown => \A i \in 1..Len(selectedUnits) : SomeId(storageUnits, selectedUnits[i].id)

\* C3: when the fetch of a superseded load settles, the stored markup and
\* the load error stay as they are; the stored markup is the answer to the
\* request for the current svgUrl.
C3_SupersededLoadDiscarded ==
  /\ [](Mounted /\ plano.svgContent # Null
          => plano.svgContent[1] \in {DocumentAt(<<API_BASE, svgUrl[1]>>), "comment"})
  /\ [][\A f \in plano.fetches :
          (Mounted /\ Mounted' /\ f.id # plano.loadSeq
             /\ plano'.loadSeq = plano.loadSeq /\ plano'.fetches = plano.fetches \ {f})
            => (plano'.svgContent = plano.svgContent /\ plano'.loadError = plano.loadError)]_vars

\* a superseded fetch is still in flight after the current load has stored
\* its markup
C3_Witness ==
  /\ Mounted /\ plano.svgContent # Null
  /\ \E f \in plano.fetches : f.id < plano.loadSeq /\ f.url # <<API_BASE, svgUrl[1]>>

\* C4: the fill of a unit is decided in this order: selected, then not
\* available, then excluded by the dimension filter, then price strictly
\* above the maximum, else available; a price equal to the maximum is not
\* filtered, and the shapes are painted with that fill.
C4_FillPrecedence ==
  /\ LayoutShown =>
       \A i \in 1..Len(storageUnits), st \in Statuses,
          fd \in {Null, Some(2), Some(3)}, mp \in {Null, Some(50), Some(80), Some(100)} :
         LET u == [storageUnits[i] EXCEPT !.status = st]
             selected == \E j \in 1..Len(selectedUnits) : selectedUnits[j].id = u.id
             fill == getFill(u, fd, IdSet(selectedUnits), mp)
         IN /\ selected => fill = COLOR_SELECTED
            /\ (~selected /\ st # "AVAILABLE") => fill = COLOR_OCCUPIED
            /\ (~selected /\ st = "AVAILABLE" /\ fd # Null /\ u.dimensions # fd[1])
                 => fill = COLOR_FILTERED
            /\ (~selected /\ st = "AVAILABLE" /\ (fd = Null \/ u.dimensions = fd[1])
                  /\ mp # Null /\ u.price > mp[1]) => fill = COLOR_FILTERED
            /\ (~selected /\ st = "AVAILABLE" /\ (fd = Null \/ u.dimensions = fd[1])
                  /\ (mp = Null \/ u.price <= mp[1])) => fill = COLOR_AVAILABLE
  /\ (Mounted /\ plano.frame = Null) =>
       \A e \in DOMAIN plano.elems :
         plano.elems[e].unit # Null =>
           LET u == plano.elems[e].unit[1]
           IN /\ SomeId(selectedUnits, u.id) => plano.elems[e].fill = COLOR_SELECTED
              /\ (~SomeId(selectedUnits, u.id) /\ u.status # "AVAILABLE")
                   => plano.elems[e].fill = COLOR_OCCUPIED

\* the shape of a selected unit that is not available is painted as selected
C4_Witness ==
  /\ Mounted /\ plano.frame = Null
  /\ \E e \in DOMAIN plano.elems :
       /\ plano.elems[e].unit # Null
       /\ plano.elems[e].unit[1].status # "AVAILABLE"
       /\ plano.elems[e].fill = COLOR_SELECTED

\* C5: a unit is interactive exactly when it is AVAILABLE and passes both
\* filters, so a unit that is not AVAILABLE never is; a click on the shape of
\* a unit that is not interactive leaves the selection as it was.
C5_NonInteractiveClickIgnored ==
  /\ LayoutShown =>
       \A i \in 1..Len(storageUnits), st \in Statuses,
          fd \in {Null, Some(2), Some(3)}, mp \in {Null, Some(50), Some(80), Some(100)} :
         LET u == [storageUnits[i] EXCEPT !.status = st]
         IN /\ st # "AVAILABLE" => ~isClickable(u, fd, mp)
            /\ isClickable(u, fd, mp)
                 <=> /\ st = "AVAILABLE"
                     /\ fd = Null \/ u.dimensions = fd[1]
                     /\ mp = Null \/ u.price <= mp[1]
  /\ lastClick # Null =>
       LET u == lastClick[1].unit
           interactive ==
             /\ u.status = "AVAILABLE"
             /\ filterByDimensions = Null \/ u.dimensions = filterByDimensions[1]
             /\ maxPriceInput = "" \/ u.price <= NumberOfInput(maxPriceInput)
       IN ~interactive => selectedUnits = lastClick[1].before

\* the shape of a unit that is not available was clicked
C5_Witness ==
  /\ lastClick # Null
  /\ lastClick[1].unit.status # "AVAILABLE"
  /\ selectedUnits = lastClick[1].before

\* C6: toggling a unit adds it when it is absent and removes it when it is
\* present, the other selected units keep their places; toggling the same
\* unit twice gives back the same set of selected ids.
C6_ToggleTwice ==
  /\ LayoutShown =>
       \A i \in 1..Len(storageUnits) :
         LET u == storageUnits[i]
             others(sel) == SelectSeq(sel, LAMBDA x : x.id # u.id)
             once == ToggleUnit(selectedUnits, u)
             twice == ToggleUnit(once, u)
         IN /\ IdSet(once) = IF u.id \in IdSet(selectedUnits)
                             THEN IdSet(selectedUnits) \ {u.id}
                             ELSE IdSet(selectedUnits) \cup {u.id}
            /\ others(once) = others(selectedUnits)
            /\ IdSet(twice) = IdSet(selectedUnits)
            /\ others(twice) = others(selectedUnits)
            /\ Len(twice) = Len(selectedUnits)
  /\ lastClick # Null =>
       LET u == lastClick[1].unit
       IN \/ selectedUnits = lastClick[1].before
          \/ /\ IdSet(selectedUnits) # IdSet(lastClick[1].before)
             /\ IdSet(selectedUnits) \ {u.id} = IdSet(lastClick[1].before) \ {u.id}

\* a click removed a unit from a selection of two, the other one stayed
C6_Witness ==
  /\ lastClick # Null
  /\ Len(lastClick[1].before) = 2
  /\ Len(selectedUnits) = 1
  /\ ~SomeId(selectedUnits, lastClick[1].unit.id)

\* C7: a step that changes the dimension filter or the maximum price leaves
\* the selection as it was, also the units the new filter excludes.
C7_FilterKeepsSelection ==
  [][(filterByDimensions' # filterByDimensions \/ maxPriceInput' # maxPriceInput)
       => selectedUnits' = selectedUnits]_vars

\* a unit is selected that the active dimension filter or the maximum
\* price excludes
C7_Witness ==
  /\ LayoutShown
  /\ \E i \in 1..Len(selectedUnits) :
       \/ filterByDimensions # Null /\ selectedUnits[i].dimensions # filterByDimensions[1]
       \/ maxPriceInput # "" /\ selectedUnits[i].price > NumberOfInput(maxPriceInput)

\* C8: the load error and the markup are never both stored; when the fetch
\* of the current load settles, the markup is stored only for a status in
\* 200..299 with a text that holds '<svg', and in every other case (a
\* rejected fetch, 304, 404, a text without '<svg') the error is set and no
\* markup is stored.
C8_LoadFailures ==
  /\ [](~(plano.loadError # Null /\ plano.svgContent # Null))
  /\ [][\A f \in plano.fetches : \A o \in FetchOutcomes(f.url) :
          (Mounted /\ f.id = plano.loadSeq /\ ~f.cancelled /\ FetchSettles(f, o))
            => IF o.kind = "response" /\ o.status \in 200..299 /\ o.status # 304
                  /\ IncludesSvgTag(o.text)
               THEN plano'.svgContent = Some(o.text) /\ plano'.loadError = Null
               ELSE /\ plano'.svgContent = Null
                    /\ plano'.loadError # Null
                    /\ plano'.hostMarkup = Null]_vars

\* the plan server answered 304 to the current load
C8_Witness ==
  /\ Mounted
  /\ plano.loadError = Some(ErrorMessage("SVG HTTP", 304))
  /\ plano.svgContent = Null

\* C9: a step that starts a new load clears the stored markup, the load
\* error, the match warning, the element bindings and the tooltip.
C9_NewLoadResets ==
  [][(plano'.loadSeq # plano.loadSeq /\ plano'.loadSeq # 0)
       => /\ plano'.svgContent = Null
          /\ plano'.loadError = Null
          /\ plano'.matchWarning = Null
          /\ plano'.hostMarkup = Null
          /\ plano'.elems = NoElements
          /\ plano'.tooltip = Null]_vars

\* C10: a step that changes the filters or the selection of a mounted plan
\* starts no fetch and stores no other markup, and leaves the injected
\* document and its elements as they are; only a repaint frame is requested.
\* While the injected document stays, an element bound to a unit stays bound
\* to that unit.
C10_RepaintOnly ==
  /\ [][(Mounted /\ Mounted' /\ svgUrl' = svgUrl
           /\ (filterByDimensions' # filterByDimensions \/ maxPriceInput' # maxPriceInput
                 \/ selectedUnits' # selectedUnits))
          => /\ plano'.fetches = plano.fetches
             /\ plano'.loadSeq = plano.loadSeq
             /\ plano'.svgContent = plano.svgContent
             /\ plano'.loadError = plano.loadError
             /\ plano'.hostMarkup = plano.hostMarkup
             /\ plano'.elems = plano.elems
             /\ (plano.hostMarkup # Null => plano'.frame # Null)]_vars
  /\ [][(Mounted /\ Mounted' /\ plano.hostMarkup # Null /\ plano'.hostMarkup = plano.hostMarkup
           /\ plano'.loadSeq = plano.loadSeq)
          => \A e \in DOMAIN plano.elems :
               /\ e \in DOMAIN plano'.elems
               /\ plano.elems[e].unit # Null
                    => /\ plano'.elems[e].unit # Null
                       /\ plano'.elems[e].unit[1].id = plano.elems[e].unit[1].id]_vars

\* a repaint is pending after a filter change, over painted elements
C10_Witness ==
  /\ Mounted
  /\ filterByDimensions # Null
  /\ selectedUnits # <<>>
  /\ plano.frame # Null
  /\ plano.hostMarkup # Null
  /\ \E e \in DOMAIN plano.elems : plano.elems[e].unit # Null

\* the input between its first and its last character that is no white space
ResolvedShape(s) ==
  LET solid == {i \in 1..Len(s) : s[i] # " "}
  IN IF solid = {} THEN <<>>
     ELSE SubSeq(s, CHOOSE i \in solid : \A j \in solid : i <= j,
                    CHOOSE i \in solid : \A j \in solid : i >= j)

\* raw is letters, then white space, then digits: the end of the letters
\* and the start of the digits, or the empty set
LettersThenDigits(raw) ==
  {pq \in (1..Len(raw)) \X (1..Len(raw)) :
     /\ pq[1] <= pq[2] /\ pq[2] < Len(raw)
     /\ \A i \in 1..pq[1] : IsLetter(raw[i])
     /\ \A i \in (pq[1] + 1)..pq[2] : raw[i] = " "
     /\ \A i \in (pq[2] + 1)..Len(raw) : IsDigit(raw[i])}

\* the candidates the variants are taken from, in the order of the claim
VariantCandidates(raw) ==
  IF LettersThenDigits(raw) = {} THEN <<raw, ToUpperCase(raw)>>
  ELSE LET pq == CHOOSE x \in LettersThenDigits(raw) : TRUE
           prefix == ToUpperCase(SubSeq(raw, 1, pq[1]))
           n == NumberToString(DigitsToNumber(SubSeq(raw, pq[2] + 1, Len(raw))))
       IN <<raw, ToUpperCase(raw), prefix \o n, prefix \o PadStart(n, 2),
            prefix \o PadStart(n, 3)>>

FirstIndex(seq, v) == CHOOSE i \in 1..Len(seq) : seq[i] = v /\ \A j \in 1..(i - 1) : seq[j] # v

\* C16: the variants of a shape identifier are, in this order and without
\* duplicates, for the trimmed input: the literal string, its upper-cased
\* form and, when it is letters followed by digits (white space and leading
\* zeros between them allowed), the upper-cased prefix followed by the bare
\* integer, by the integer padded to 2 digits and by the integer padded to
\* 3 digits; a blank input has no variants.  "t12" has the variant "T12",
\* and "T012" has the bare and padded variants of "T12".
C16_VariantsOf ==
  (probe # Null /\ probe.op = "findSvgElement" /\ probe.out # Null) =>
    LET raw == ResolvedShape(probe.shapeId)
        v == probe.out[1].variants
        c == VariantCandidates(raw)
    IN /\ raw = <<>> => v = <<>>
       /\ raw # <<>> =>
            /\ Range(v) = Range(c)
            /\ \A i, j \in 1..Len(v) : i < j => FirstIndex(c, v[i]) < FirstIndex(c, v[j])
       /\ probe.shapeId = <<"t", "1", "2">> => <<"T", "1", "2">> \in Range(v)
       /\ probe.shapeId = <<"T", "0", "1", "2">> =>
            LET w == getShapeIdVariants(<<"T", "1", "2">>)
            IN {w[k] : k \in 1..Len(w)} \subseteq Range(v)

\* "T012" was resolved: the literal string first, then the bare integer form
C16_Witness ==
  /\ probe # Null /\ probe.op = "findSvgElement" /\ probe.out # Null
  /\ probe.shapeId = <<"T", "0", "1", "2">>
  /\ probe.out[1].variants = << <<"T", "0", "1", "2">>, <<"T", "1", "2">> >>

\* C17: findSvgElement returns the element whose id is the earliest variant
\* that is the id of an element of the document, and nothing iff no variant
\* is the id of an element: "t12" binds to "T12" in a document without
\* "t12" and to "t12" when both are there.
C17_FirstVariantWins ==
  (probe # Null /\ probe.op = "findSvgElement" /\ probe.out # Null) =>
    LET v == probe.out[1].variants
        el == probe.out[1].el
    IN /\ el = Null <=> \A i \in 1..Len(v) : v[i] \notin probe.ids
       /\ el # Null =>
            \E i \in 1..Len(v) : /\ v[i] = el[1]
                                 /\ el[1] \in probe.ids
                                 /\ \A j \in 1..(i - 1) : v[j] \notin probe.ids
       /\ (probe.shapeId = <<"t", "1", "2">> /\ probe.ids = {<<"T", "1", "2">>})
            => el = Some(<<"T", "1", "2">>)
       /\ (probe.shapeId = <<"t", "1", "2">>
             /\ probe.ids = {<<"t", "1", "2">>, <<"T", "1", "2">>})
            => el = Some(<<"t", "1", "2">>)

\* "t12" was resolved in a document holding both "t12" and "T12"
C17_Witness ==
  /\ probe # Null /\ probe.op = "findSvgElement" /\ probe.out # Null
  /\ probe.shapeId = <<"t", "1", "2">>
  /\ probe.ids = {<<"t", "1", "2">>, <<"T", "1", "2">>}
  /\ probe.out[1].el = Some(<<"t", "1", "2">>)

\* a repaint frame ran to its end in this step
RepaintCompletes ==
  /\ Mounted
  /\ plano.frame # Null /\ plano'.frame = Null
  /\ plano.hostMarkup # Null /\ plano'.hostMarkup = plano.hostMarkup
  /\ HasSvgElement(plano.hostMarkup[1])

\* the units of the list that resolve to an element of the document
ResolvedUnits(units, ids) == {i \in 1..Len(units) : findSvgElement(ids, units[i].shapeId) # Null}

\* C14: the binding of units to elements is one-to-one: after a repaint no
\* two distinct units of the collection are bound to the same element, also
\* when their shape identifiers differ in case or zero-padding only.
C14_BindingOneToOne ==
  [][RepaintCompletes =>
       LET units == plano.frame[1].storageUnits
           ids == DOMAIN plano.elems
       IN \A i, j \in ResolvedUnits(units, ids) :
            i # j => findSvgElement(ids, units[i].shapeId) # findSvgElement(ids, units[j].shapeId)]_vars

Computed == probe # Null /\ probe.op = "computeDimensions" /\ probe.out # Null

\* C18: for a dimensions string <a><sep><b> with sep one of x, X, U+00D7
\* and *, and a and b positive numbers written with '.' or ',', the result
\* is a * b whatever area, width, height and length hold: "2x1" gives 2 and
\* "2,5x2" gives 5.
C18_PairGivesProduct ==
  Computed =>
    /\ \A a \in Operands, b \in Operands, sep \in Separators :
         (/\ probe.raw.dimensions = StringValue(a.text \o <<sep>> \o b.text)
          /\ a.value.m > 0 /\ b.value.m > 0)
           => probe.out[1] = Dec(a.value.m * b.value.m, a.value.e + b.value.e)
    /\ probe.raw.dimensions = StringValue(<<"2", "x", "1">>) => probe.out[1] = Dec(2, 0)
    /\ probe.raw.dimensions = StringValue(<<"2", ",", "5", "x", "2">>) => probe.out[1] = Dec(5, 0)

\* "2,5x2" with a positive area, width, height and length gave 5
C18_Witness ==
  /\ Computed
  /\ probe.raw.dimensions = StringValue(<<"2", ",", "5", "x", "2">>)
  /\ probe.raw.area = NumberValue(Dec(3, 0))
  /\ probe.out[1] = Dec(5, 0)

\* t, white space around it aside, is digits with at most one decimal mark
\* among them, and one of the digits is not 0
PositiveNumberText(t) ==
  LET u == ResolvedShape(t)
      marks == {i \in 1..Len(u) : u[i] \in {".", ","}}
  IN /\ Cardinality(marks) <= 1
     /\ \A i \in (1..Len(u)) \ marks : IsDigit(u[i])
     /\ \E i \in 1..Len(u) : IsDigit(u[i]) /\ u[i] # "0"

\* t is two such numbers around one separator
PositivePairText(t) ==
  \E i \in 1..Len(t) :
    /\ t[i] \in Separators
    /\ PositiveNumberText(SubSeq(t, 1, i - 1))
    /\ PositiveNumberText(SubSeq(t, i + 1, Len(t)))

\* the field is missing or holds nothing positive
NothingIn(v) == v.type = "undefined" \/ (v.type = "number" /\ v.num.m <= 0)

\* C19: when no dimension-like field holds anything usable the result is
\* exactly 0; a dimensions string that is neither a pair <a>x<b> of two
\* positive numbers nor one positive number ("2x0", "3abc", "0x5") is not
\* usable.
C19_NothingUsableGivesZero ==
  (/\ Computed
   /\ \/ NothingIn(probe.raw.dimensions)
      \/ /\ probe.raw.dimensions.type = "string"
         /\ ~PositivePairText(probe.raw.dimensions.text)
         /\ ~PositiveNumberText(probe.raw.dimensions.text)
   /\ NothingIn(probe.raw.area) /\ NothingIn(probe.raw.width)
   /\ NothingIn(probe.raw.height) /\ NothingIn(probe.raw.length))
    => probe.out[1] = Zero

C12_PartialFailureShown ==
  (/\ host = "wizard" /\ step = 5
   /\ ~form.loading /\ form.batch # Null /\ BatchDone(form.batch[1])
   /\ Len(form.batch[1].failed) > 0
   /\ Len(form.batch[1].failed) < Len(form.batch[1].units))
    => /\ VisibleSubmitError # Null
       /\ VisibleSubmitError[1].failed = form.batch[1].failed

\* the last request of a batch of FormularioReserva settles in this step
BatchCompletes == host = "page" /\ form.loading /\ form.batch # Null /\ ~form'.loading

C13_OnlyStatusToReserved ==
  [][/\ Len(storageUnits') = Len(storageUnits)
     /\ \A k \in 1..Len(storageUnits) :
          \/ storageUnits'[k] = storageUnits[k]
          \/ /\ storageUnits'[k] = [storageUnits[k] EXCEPT !.status = "RESERVED"]
             /\ BatchCompletes
             /\ \E i \in 1..Len(form.batch[1].units) :
                  form.batch[1].units[i].id = storageUnits[k].id
             /\ \/ form'.submitError = Null
                \/ storageUnits[k].number \notin Range(form'.submitError[1].failed)]_vars

\* with a size filter on, a batch of two ended with one failure: the unit
\* reserved differs from the loaded one in its status only, the others are
\* as loaded
C13_Witness ==
  /\ host = "page" /\ ~form.loading
  /\ filterByDimensions # Null
  /\ form.submitError # Null /\ form.submitError[1].total = 2
  /\ storageUnits[1] = [PlanUnitsC[1] EXCEPT !.status = "RESERVED"]
  /\ storageUnits[2] = PlanUnitsC[2]
  /\ storageUnits[3] = PlanUnitsC[3]


Enriched == probe # Null /\ probe.op = "enrichUnit" /\ probe.out # Null

\* C22: the enriched unit copies id, number, shapeId, status, type and price,
\* its area is the area computed from the raw unit, and its label is the raw
\* dimensions text verbatim when that is a non-empty string (also when the
\* text could not be parsed) and otherwise the computed area followed by
\* " m\u00b2"; a unit {dimensions: "2x1"} gets the area 2 and the label "2x1"
C22_EnrichUnit ==
  Enriched =>
    LET raw == probe.raw
        u == probe.out[1]
        n == Len(u.dimensionsLabel)
    IN /\ u.id = raw.id /\ u.number = raw.number /\ u.shapeId = raw.shapeId
       /\ u.status = raw.status /\ u.type = raw.type /\ u.price = raw.price
       /\ u.dimensions = computeDimensions(raw)
       /\ IF raw.dimensions.type = "string" /\ raw.dimensions.text # <<>>
          THEN u.dimensionsLabel = raw.dimensions.text
          ELSE /\ n > 3
               /\ SubSeq(u.dimensionsLabel, n - 2, n) = <<" ", "m", "U+00B2">>
               /\ IsDigit(u.dimensionsLabel[n - 3])
               /\ parseFloat(SubSeq(u.dimensionsLabel, 1, n - 3)) = Some(u.dimensions)
       /\ (raw.dimensions = StringValue(<<"2", "x", "1">>)
             => u.dimensions = Dec(2, 0) /\ u.dimensionsLabel = <<"2", "x", "1">>)

\* a text that cannot be parsed is kept as the label beside the area field
C22_Witness ==
  /\ Enriched
  /\ probe.raw.dimensions = StringValue(<<"a">>)
  /\ probe.raw.area = NumberValue(Dec(3, 0))
  /\ probe.out[1].dimensionsLabel = <<"a">>
  /\ probe.out[1].dimensions = Dec(3, 0)

\* C21: a unit whose surface is 0 never satisfies an active size filter:
\* while a size filter is set, such a unit that is available and not
\* selected is painted as filtered out and cannot be clicked, and the filter
\* is never the bucket 0; without a size filter it is available and can be
\* clicked
C21_ZeroNeverMatches ==
  \A i \in 1..Len(storageUnits) :
    LET u == storageUnits[i]
        maxP == MaxPriceOf(maxPriceInput)
        fill == getFill(u, filterByDimensions, IdSet(selectedUnits), maxP)
    IN (u.dimensions = 0 /\ u.status = "AVAILABLE" /\ u.id \notin IdSet(selectedUnits)) =>
         IF filterByDimensions # Null
         THEN /\ filterByDimensions # Some(0)
              /\ fill = COLOR_FILTERED
              /\ ~isClickable(u, filterByDimensions, maxP)
         ELSE /\ fill = COLOR_AVAILABLE
              /\ isClickable(u, filterByDimensions, maxP)

\* C23: after every step the displayed scale lies within the fixed range
\* [0.1, 4], the widest the zoom buttons allow; the reset button sets the
\* scale to the stored auto-fit value, and the zoom buttons leave the stored
\* auto-fit value alone
C23_ScaleBounded ==
  [][/\ plano'.scale >= ScaleOne \div 10
     /\ plano'.scale <= 4 * ScaleOne
     /\ (ResetToFit => plano'.scale = plano.fitScale)
     /\ (ZoomIn \/ ZoomOut => plano'.fitScale = plano.fitScale)]_vars

\* the step of the load cycle an instance of PlanoSVG is in
LoadPhase(p) ==
  IF p.loadError # Null THEN "load_failed"
  ELSE IF p.svgContent = Null
  THEN IF \E f \in p.fetches : ~f.cancelled THEN "loading" ELSE "idle"
  ELSE IF \E e \in DOMAIN p.elems : p.elems[e].unit # Null THEN "painted"
  ELSE "loaded"

\* a step that writes fill, cursor and handlers of some element
PaintStep ==
  \E e \in DOMAIN plano'.elems :
    /\ plano'.elems[e].unit # Null
    /\ (e \notin DOMAIN plano.elems \/ plano'.elems[e] # plano.elems[e])

\* C24: the steps of a load cycle are ordered: the markup is stored or the
\* load fails only out of loading, and shapes are painted only out of the
\* loaded markup; a paint step happens only when the stored markup of the
\* current load has been injected into the host node, never while loading or
\* after a failed load, and the document it paints is the answer to the
\* request for the current svgUrl, not that of a superseded load
C24_LoadCycleOrder ==
  [][/\ (LoadPhase(plano') = "loaded" => LoadPhase(plano) \in {"loading", "loaded"})
     /\ (LoadPhase(plano') = "load_failed" => LoadPhase(plano) \in {"loading", "load_failed"})
     /\ (LoadPhase(plano') = "painted" => LoadPhase(plano) \in {"loaded", "painted"})
     /\ (PaintStep =>
           /\ LoadPhase(plano) \in {"loaded", "painted"}
           /\ plano.hostMarkup = plano.svgContent
           /\ svgUrl # Null
           /\ plano.svgContent[1] = DocumentAt(getSvgFullUrl(svgUrl[1])[1])
           /\ DOMAIN plano'.elems = DocIds(plano.svgContent[1])
           /\ plano'.svgContent = plano.svgContent
           /\ plano'.hostMarkup = plano.hostMarkup)]_vars

\* the shapes of the second load of an instance have been painted
C24_Witness ==
  /\ plano.loadSeq = 2
  /\ LoadPhase(plano) = "painted"
  /\ plano.hostMarkup = plano.svgContent

\* C25: at most one repaint frame is queued, the one requested by the last
\* render; a frame that was superseded has been cancelled, so the frame
\* that runs and writes elements or the warning is the one of the last
\* render: it computes with the units, filters and selection shown now
C25_OneFramePending ==
  [][/\ Cardinality(plano'.frames) <= 1
     /\ plano'.frames = (IF plano'.frame = Null THEN {} ELSE {plano'.frame[1]})
     /\ (plano'.frames # plano.frames /\ plano'.frames = {} /\ Mounted' =>
           \A snap \in plano.frames :
             snap = [storageUnits |-> storageUnits,
                     filterByDimensions |-> filterByDimensions,
                     maxPrice |-> MaxPriceOf(maxPriceInput),
                     selectedUnits |-> selectedUnits])]_vars

\* the first frame after the injection never ran: a size button was clicked
\* before it, and the frame of that render is the one queued
C25_Witness ==
  /\ plano.frame # Null
  /\ plano.frame[1].filterByDimensions # Null
  /\ plano.hostMarkup # Null
  /\ HasSvgElement(plano.hostMarkup[1])
  /\ \A e \in DOMAIN plano.elems : plano.elems[e].unit = Null
  /\ plano.matchWarning = Null

\* C26: whatever the number of repaints, an element bound to a unit carries
\* exactly one click handler, the one of its unit, and one handler each for
\* enter, move and leave, and an element that is not bound carries none; a
\* click on a bound element whose unit is interactive toggles the unit in
\* the selection exactly once
C26_OneHandlerOneToggle ==
  /\ \A e \in DOMAIN plano.elems :
       LET el == plano.elems[e]
       IN IF el.unit = Null THEN el.onclick = <<>> /\ el.onmouse = 0
          ELSE el.onclick = <<el.unit[1]>> /\ el.onmouse = 1
  /\ (lastClick # Null /\ isClickable(lastClick[1].unit, filterByDimensions,
                                       MaxPriceOf(maxPriceInput))) =>
       LET id == lastClick[1].unit.id
           before == IdSet(lastClick[1].before)
       IN /\ IdSet(selectedUnits) = IF id \in before THEN before \ {id} ELSE before \cup {id}
          /\ Len(selectedUnits) = Len(lastClick[1].before) + (IF id \in before THEN -1 ELSE 1)

\* a click added a second unit after the repaint that followed the first
\* selection had painted the plan again
C26_Witness ==
  /\ lastClick # Null
  /\ ~SomeId(lastClick[1].before, lastClick[1].unit.id)
  /\ SomeId(selectedUnits, lastClick[1].unit.id)
  /\ \E e \in DOMAIN plano.elems \ {lastClick[1].el} : plano.elems[e].fill = COLOR_SELECTED

\* every bound element shows what the resolver gives for its unit under the
\* filters and the selection of now
PaintedAsResolved ==
  \A e \in DOMAIN plano.elems :
    LET el == plano.elems[e]
        maxP == MaxPriceOf(maxPriceInput)
    IN el.unit # Null =>
         /\ el.fill = getFill(el.unit[1], filterByDimensions, IdSet(selectedUnits), maxP)
         /\ el.cursor = (IF isClickable(el.unit[1], filterByDimensions, maxP)
                         THEN "pointer" ELSE "default")

\* C27: whenever the fill or the cursor of a bound element is not what the
\* resolver gives under the current filters and selection, the plan is
\* eventually painted so that every bound element shows the resolver's fill
\* and the pointer cursor exactly when its unit is interactive
C27_EventuallyPainted == ~PaintedAsResolved ~> PaintedAsResolved

\* a click selected a unit and its shape still shows the fill of before
C27_Witness ==
  /\ ~PaintedAsResolved
  /\ plano.frame # Null
  /\ selectedUnits # <<>>

\* C28: a click never adds to the selection a unit whose status in the
\* current collection is not AVAILABLE, also when the click comes after a
\* reservation set the unit to RESERVED and before the repaint frame
\* replaced the handlers
C28_ClickSeesCurrentStatus ==
  (lastClick # Null /\ ~SomeId(lastClick[1].before, lastClick[1].unit.id)
     /\ SomeId(selectedUnits, lastClick[1].unit.id)) =>
    \A i \in 1..Len(storageUnits) :
      storageUnits[i].id = lastClick[1].unit.id => storageUnits[i].status = "AVAILABLE"

\* C29: the step is one of 1..5; from step 2 on a start mode is chosen,
\* from step 3 on at least one unit is selected, from step 4 on the customer
\* is stored, at step 5 a payment method is chosen, and the reservation is
\* confirmed at step 5 only; NEXT_STEP at step 5 and PREV_STEP at step 1
\* leave the step as it is
C29_WizardSteps ==
  /\ step \in 1..5
  /\ (step >= 2 => startMode # Null)
  /\ (step >= 3 => selectedUnits # <<>>)
  /\ (step >= 4 => customer # Null)
  /\ (step = 5 => paymentMethod # Null)
  /\ (confirmed => step = 5)
  /\ (step = 5 => NextStepOf(step) = step)
  /\ (step = 1 => PrevStepOf(step) = step)

\* the last step, with the reservation confirmed
C29_Witness ==
  /\ step = 5
  /\ confirmed
  /\ selectedUnits # <<>>
  /\ customer # Null
  /\ paymentMethod # Null
  /\ startMode # Null

====
